---- MODULE Spec2Model ----
(***************************************************************************)
(* Incident-response playbooks (ExpenseFlow, issue #851): the approval     *)
(* gate service, the votes on an approval request, the dispatch of one     *)
(* action with its retry loop and idempotency key, the run of a playbook   *)
(* from the trigger route to its final status, the lease under which an    *)
(* owner drives or resumes a run, the escalation timers of an approval     *)
(* request, and the compensation of a failed action.                       *)
(*                                                                         *)
(* PlaybookApprovalGateService, the routes and the PlaybookExecution /     *)
(* IncidentPlaybook / policy schemas are translated from their source.     *)
(* The orchestration engine (incidentPlaybookEngineService.js) is not      *)
(* among the repository files: what it computes is taken from its unit     *)
(* tests and the documentation, and its control flow (dispatch, stages,    *)
(* cancellation, compensation) from the specification (sections 4 and 5).  *)
(* Resume and the lease appear in no repository file and are taken from    *)
(* the specification alone.                                                *)
(***************************************************************************)
EXTENDS Integers, Sequences, FiniteSets, TLC

\* ------------------------------------------------------------------ bounds
NumUsers == 3
MaxRequired == 2
NumCallers == 2
MaxRetries == 3
MaxDispatches == 2
NumActions == 3
MaxNewExecutions == 1
NumOwners == 2
MaxTime == 3
MaxEpoch == 2
MaxLevels == 2
MaxDelay == 2
MaxPolicies == 2
MaxGates == 2

\* playbookActionSchema.retryConfig defaults
DefaultMaxRetries == 3
DefaultBackoffMs == 1000
DefaultBackoffMultiplier == 2

Users == 1..NumUsers
Decisions == {"APPROVE", "DENY"}
Callers == 1..NumCallers

\* the number of approvers getApproversForGate keeps (.slice(0, 5))
ApproverSliceLimit == 5

VARIABLES
    gate,              \* the policy gate guarding the action
    policy,            \* the approval policy the gate belongs to
    approvals,         \* execution.approvals as persisted
    auditEvents,       \* execution.auditEvents as persisted
    lastCall,          \* the last processApprovalDecision call and its outcome
    calls,             \* processApprovalDecision calls in flight, one per caller
    dbVersion,         \* the version (__v) of the persisted execution document
    retryConfig,       \* action.retryConfig of the dispatched action
    actionExecutions,  \* execution.actionExecutions
    clock,             \* the time, as far as the idempotency key reads it
    playbook,          \* the IncidentPlaybook document of the run
    playbookStored,    \* the IncidentPlaybook document as the database holds it
    status,            \* execution.status, "NONE" while no execution exists
    stageNumber,       \* the stage the engine has reached, 0 before the first
    lastError,         \* the error of the last start or retry, "NONE" without
    newExecutions,     \* the executions the retry route has created
    lease,             \* the lease on the execution record
    acting,            \* the owner whose process takes the next step, 0 if none
    escalation,        \* gate.escalationPath and the timers setupEscalation set
    notifications      \* the approval notices notifyApprovers has tried to send

callVars == <<calls, dbVersion>>
engineVars == <<retryConfig, actionExecutions, clock>>
leaseVars == <<lease, acting>>
timerVars == <<escalation, notifications>>
runVars == <<playbook, playbookStored, status, stageNumber, lastError,
             newExecutions, leaseVars, timerVars>>
vars == <<gate, policy, approvals, auditEvents, lastCall, calls, dbVersion,
          retryConfig, actionExecutions, clock, playbook, playbookStored,
          status, stageNumber, lastError, newExecutions, lease, acting,
          escalation, notifications>>

\* ------------------------------------------------------------ JS helpers
\* x || 1
OrOne(x) == IF x = 0 THEN 1 ELSE x

Includes(s, x) == \E i \in DOMAIN s : s[i] = x

RECURSIVE Flatten(_)
Flatten(ss) == IF ss = <<>> THEN <<>> ELSE Head(ss) \o Flatten(Tail(ss))

Slice(s, n) == IF Len(s) <= n THEN s ELSE SubSeq(s, 1, n)

\* ------------------------------------------------- approval gate service
\* gate.approvalRoles is kept as the users User.find returns for each role.
\* new Set(approvers.map(a => a._id)) holds ObjectId objects, which a Set
\* compares by reference: documents of separate queries are all kept.
GetApproversForGate(g) == Slice(Flatten(g.approvalRoles), ApproverSliceLimit)

NoLastCall ==
    [seq |-> 0, approvalId |-> 0, userId |-> 0, decision |-> "NONE",
     outcome |-> "NONE", unsavedEvent |-> "NONE"]

NewApproval(g, id) ==
    [approvalId |-> id,
     requiredApprovers |-> OrOne(g.requiredApprovers),
     approvers |-> GetApproversForGate(g),
     status |-> "PENDING",
     approvals |-> <<>>,
     denials |-> <<>>]

\* approval.approvals.some(a => a.approvedBy == userId) ||
\* approval.denials.some(d => d.deniedBy == userId)
AlreadyDecided(approval, userId) ==
    \/ \E i \in DOMAIN approval.approvals : approval.approvals[i].approvedBy = userId
    \/ \E i \in DOMAIN approval.denials : approval.denials[i].deniedBy = userId

RecordDecision(approval, userId, decision) ==
    IF decision = "APPROVE"
    THEN [approval EXCEPT !.approvals = Append(@, [approvedBy |-> userId])]
    ELSE [approval EXCEPT !.denials = Append(@, [deniedBy |-> userId])]

\* a plausible slip: the quorum test first, the denial test second
CompleteApprovalQuorumFirst(approval) ==
    LET requiredApprovals == OrOne(approval.requiredApprovers)
        approvalsReceived == Len(approval.approvals)
        denials == Len(approval.denials)
    IN  IF approvalsReceived >= requiredApprovals
        THEN [approval EXCEPT !.status = "APPROVED"]
        ELSE IF denials > 0
        THEN [approval EXCEPT !.status = "DENIED"]
        ELSE approval

\* a plausible slip: > for >=
CompleteApprovalStrict(approval) ==
    LET requiredApprovals == OrOne(approval.requiredApprovers)
        approvalsReceived == Len(approval.approvals)
        denials == Len(approval.denials)
    IN  IF denials > 0
        THEN [approval EXCEPT !.status = "DENIED"]
        ELSE IF approvalsReceived > requiredApprovals
        THEN [approval EXCEPT !.status = "APPROVED"]
        ELSE approval

\* a plausible slip: the status recomputed from the approvals alone
CompleteApprovalRecount(approval) ==
    LET requiredApprovals == OrOne(approval.requiredApprovers)
        approvalsReceived == Len(approval.approvals)
        denials == Len(approval.denials)
    IN  IF denials > 0 /\ approvalsReceived < requiredApprovals
        THEN [approval EXCEPT !.status = "DENIED"]
        ELSE IF approvalsReceived = requiredApprovals
        THEN [approval EXCEPT !.status = "APPROVED"]
        ELSE [approval EXCEPT !.status = "PENDING"]

\* "Check if approval is complete"
CompleteApproval(approval) ==
    LET requiredApprovals == OrOne(approval.requiredApprovers)
        approvalsReceived == Len(approval.approvals)
        denials == Len(approval.denials)
    IN  IF denials > 0
        THEN [approval EXCEPT !.status = "DENIED"]
        ELSE IF approvalsReceived >= requiredApprovals
        THEN [approval EXCEPT !.status = "APPROVED"]
        ELSE approval

\* a plausible slip: only the approvals are searched for an earlier vote
DecisionOutcomeApprovalsOnly(reqs, approvalId, userId) ==
    IF ~ \E i \in DOMAIN reqs : reqs[i].approvalId = approvalId
    THEN "NOT_FOUND"
    ELSE LET approval == reqs[CHOOSE i \in DOMAIN reqs : reqs[i].approvalId = approvalId]
         IN  IF ~ Includes(approval.approvers, userId)
             THEN "NOT_AUTHORIZED"
             ELSE IF \E i \in DOMAIN approval.approvals :
                          approval.approvals[i].approvedBy = userId
             THEN "ALREADY_VOTED"
             ELSE "OK"

\* a plausible slip: the vote of a user who is not on the approvers list is
\* taken like any other
DecisionOutcomeAnyUser(reqs, approvalId, userId) ==
    IF ~ \E i \in DOMAIN reqs : reqs[i].approvalId = approvalId
    THEN "NOT_FOUND"
    ELSE LET approval == reqs[CHOOSE i \in DOMAIN reqs : reqs[i].approvalId = approvalId]
         IN  IF AlreadyDecided(approval, userId)
             THEN "ALREADY_VOTED"
             ELSE "OK"

\* the checks processApprovalDecision makes before it records the vote;
\* every outcome but OK is a thrown Error
DecisionOutcome(reqs, approvalId, userId) ==
    IF ~ \E i \in DOMAIN reqs : reqs[i].approvalId = approvalId
    THEN "NOT_FOUND"
    ELSE LET approval == reqs[CHOOSE i \in DOMAIN reqs : reqs[i].approvalId = approvalId]
         IN  IF ~ Includes(approval.approvers, userId)
             THEN "NOT_AUTHORIZED"
             ELSE IF AlreadyDecided(approval, userId)
             THEN "ALREADY_VOTED"
             ELSE "OK"

\* the approvals of the execution once the vote is recorded and resolved
Decided(reqs, approvalId, userId, decision) ==
    [i \in DOMAIN reqs |->
        IF reqs[i].approvalId = approvalId
        THEN CompleteApproval(RecordDecision(reqs[i], userId, decision))
        ELSE reqs[i]]

\* processApprovalDecision(approvalId, userId, decision, comment), run to
\* its end with no other call in between.  execution.save() comes before
\* execution.addAuditEvent(...): the event is pushed on the loaded document
\* after the write and is not part of what was saved.
ProcessApprovalDecision(approvalId, userId, decision) ==
    LET outcome == DecisionOutcome(approvals, approvalId, userId)
    IN  /\ approvals' = IF outcome = "OK"
                        THEN Decided(approvals, approvalId, userId, decision)
                        ELSE approvals
        /\ lastCall' = [seq |-> 1 - lastCall.seq,
                        approvalId |-> approvalId,
                        userId |-> userId,
                        decision |-> decision,
                        outcome |-> outcome,
                        unsavedEvent |-> IF outcome = "OK"
                                         THEN "APPROVAL_DECISION" ELSE "NONE"]
        /\ UNCHANGED <<gate, policy, auditEvents, calls, dbVersion, engineVars, runVars>>

\* a plausible slip: one try around the whole loop, so that the first notice
\* that fails ends the loop
NotifyApproversStopsAtFailure(approvers, approvalId, notifyFails) ==
    LET tried == {i \in DOMAIN approvers :
                     \A j \in 1..(i - 1) : approvers[j] \notin notifyFails}
    IN  [i \in 1..Cardinality(tried) |->
            [approvalId |-> approvalId, userId |-> approvers[i],
             delivered |-> approvers[i] \notin notifyFails]]

\* notifyApprovers(approvers, gate, incident, execution, approval): one notice
\* per approver, in the order of the list, each in a try of its own whose
\* catch logs the error.  notifyFails: the users the notifier throws for.
NotifyApprovers(approvers, approvalId, notifyFails) ==
    [i \in DOMAIN approvers |->
        [approvalId |-> approvalId, userId |-> approvers[i],
         delivered |-> approvers[i] \notin notifyFails]]

\* a plausible slip: the request is stored whether or not there is an approver
RequestApprovalFromGateUnchecked(g, reqs) ==
    [status |-> "PENDING", reason |-> "NONE",
     approvalId |-> Len(reqs) + 1,
     approvals |-> Append(reqs, NewApproval(g, Len(reqs) + 1))]

\* requestApprovalFromGate, from the approvers on: with no approver the
\* answer is a DENIED object that is stored nowhere; otherwise the request
\* is pushed on execution.approvals, PENDING and without a vote.
\* notifyApprovers catches what the notifier throws, and setupEscalation
\* only sets timers.
RequestApprovalFromGate(g, reqs) ==
    IF Len(GetApproversForGate(g)) = 0
    THEN [status |-> "DENIED", reason |-> "No approvers available",
          approvalId |-> 0, approvals |-> reqs]
    ELSE [status |-> "PENDING", reason |-> "NONE",
          approvalId |-> Len(reqs) + 1,
          approvals |-> Append(reqs, NewApproval(g, Len(reqs) + 1))]

\* policy.hasExceptionFor(incident.targetUser, incident.severity)
HasExceptionFor(p) ==
    \E i \in DOMAIN p.exceptions :
        p.exceptions[i].enabled /\ p.exceptions[i].exemptsTarget

\* checkAutoApproval: a condition that throws is skipped (holds = FALSE)
CheckAutoApproval(p) ==
    \E i \in DOMAIN p.autoApprovalConditions :
        p.autoApprovalConditions[i].holds /\ p.autoApprovalConditions[i].autoApprove

\* evaluateConditions(conditions, incident, execution)
EvaluateConditions == TRUE

\* a plausible slip: whatever is not ALLOW_ACTION denies
GateFallbackDenies(p, reqs) ==
    CASE p.fallbackBehavior = "ALLOW_ACTION" ->
            [status |-> "PASSED", reason |-> "Allowed due to system error (fallback)",
             approvalId |-> 0, approvals |-> reqs]
      [] OTHER ->
            [status |-> "FAILED", reason |-> "System error",
             approvalId |-> 0, approvals |-> reqs]

\* the catch block of evaluateGate
GateFallback(p, reqs) ==
    CASE p.fallbackBehavior = "DENY_ACTION" ->
            [status |-> "FAILED", reason |-> "System error",
             approvalId |-> 0, approvals |-> reqs]
      [] p.fallbackBehavior = "ALLOW_ACTION" ->
            [status |-> "PASSED", reason |-> "Allowed due to system error (fallback)",
             approvalId |-> 0, approvals |-> reqs]
      [] OTHER ->
            [status |-> "ESCALATION_REQUIRED",
             reason |-> "System error requiring escalation",
             approvalId |-> 0, approvals |-> reqs]

\* a plausible slip: the auto-approval is looked at before the exceptions
EvaluateGateAutoFirst(g, p, reqs, userFindFails) ==
    IF ~ g.requiresApproval
    THEN [status |-> IF EvaluateConditions THEN "PASSED" ELSE "FAILED",
          reason |-> "NONE", approvalId |-> 0, approvals |-> reqs]
    ELSE IF CheckAutoApproval(p)
    THEN [status |-> "PASSED", reason |-> "Auto-approved based on conditions",
          approvalId |-> 0, approvals |-> reqs]
    ELSE IF HasExceptionFor(p)
    THEN [status |-> "PASSED", reason |-> "Exception granted",
          approvalId |-> 0, approvals |-> reqs]
    ELSE IF userFindFails
    THEN GateFallback(p, reqs)
    ELSE LET approval == RequestApprovalFromGate(g, reqs)
         IN  IF approval.status = "DENIED"
             THEN [status |-> "FAILED", reason |-> "Approval denied: No approvers available",
                   approvalId |-> 0, approvals |-> approval.approvals]
             ELSE IF approval.status = "PENDING" /\ ~ g.allowPartialExecution
             THEN [status |-> "APPROVAL_PENDING", reason |-> "Awaiting approval",
                   approvalId |-> approval.approvalId,
                   approvals |-> approval.approvals]
             ELSE [status |-> IF EvaluateConditions THEN "PASSED" ELSE "FAILED",
                   reason |-> "NONE",
                   approvalId |-> approval.approvalId,
                   approvals |-> approval.approvals]

\* a plausible slip: the DENIED answer is not looked at
EvaluateGateIgnoresDenied(g, p, reqs, userFindFails) ==
    IF ~ g.requiresApproval
    THEN [status |-> "PASSED", reason |-> "NONE", approvalId |-> 0, approvals |-> reqs]
    ELSE IF HasExceptionFor(p)
    THEN [status |-> "PASSED", reason |-> "Exception granted",
          approvalId |-> 0, approvals |-> reqs]
    ELSE IF CheckAutoApproval(p)
    THEN [status |-> "PASSED", reason |-> "Auto-approved based on conditions",
          approvalId |-> 0, approvals |-> reqs]
    ELSE IF userFindFails
    THEN GateFallback(p, reqs)
    ELSE LET approval == RequestApprovalFromGate(g, reqs)
         IN  IF approval.status = "PENDING" /\ ~ g.allowPartialExecution
             THEN [status |-> "APPROVAL_PENDING", reason |-> "Awaiting approval",
                   approvalId |-> approval.approvalId,
                   approvals |-> approval.approvals]
             ELSE [status |-> "PASSED", reason |-> "NONE",
                   approvalId |-> approval.approvalId,
                   approvals |-> approval.approvals]

\* a plausible slip: a PENDING request always lets the gate pass
EvaluateGateNeverWaits(g, p, reqs, userFindFails) ==
    IF ~ g.requiresApproval
    THEN [status |-> "PASSED", reason |-> "NONE", approvalId |-> 0, approvals |-> reqs]
    ELSE IF HasExceptionFor(p)
    THEN [status |-> "PASSED", reason |-> "Exception granted",
          approvalId |-> 0, approvals |-> reqs]
    ELSE IF CheckAutoApproval(p)
    THEN [status |-> "PASSED", reason |-> "Auto-approved based on conditions",
          approvalId |-> 0, approvals |-> reqs]
    ELSE IF userFindFails
    THEN GateFallback(p, reqs)
    ELSE LET approval == RequestApprovalFromGate(g, reqs)
         IN  IF approval.status = "DENIED"
             THEN [status |-> "FAILED", reason |-> "Approval denied: No approvers available",
                   approvalId |-> 0, approvals |-> approval.approvals]
             ELSE [status |-> "PASSED", reason |-> "NONE",
                   approvalId |-> approval.approvalId,
                   approvals |-> approval.approvals]

\* evaluateGate(gate, policy, incident, execution): the gate result, with
\* the approvals of the execution as the call leaves them.  userFindFails:
\* User.find throws in getApproversForGate, the one call of the try block
\* whose error reaches the catch.
EvaluateGate(g, p, reqs, userFindFails) ==
    IF ~ g.requiresApproval
    THEN [status |-> IF EvaluateConditions THEN "PASSED" ELSE "FAILED",
          reason |-> "NONE", approvalId |-> 0, approvals |-> reqs]
    ELSE IF HasExceptionFor(p)
    THEN [status |-> "PASSED", reason |-> "Exception granted",
          approvalId |-> 0, approvals |-> reqs]
    ELSE IF CheckAutoApproval(p)
    THEN [status |-> "PASSED", reason |-> "Auto-approved based on conditions",
          approvalId |-> 0, approvals |-> reqs]
    ELSE IF userFindFails
    THEN GateFallback(p, reqs)
    ELSE LET approval == RequestApprovalFromGate(g, reqs)
         IN  IF approval.status = "DENIED"
             THEN [status |-> "FAILED", reason |-> "Approval denied: No approvers available",
                   approvalId |-> 0, approvals |-> approval.approvals]
             ELSE IF approval.status = "PENDING" /\ ~ g.allowPartialExecution
             THEN [status |-> "APPROVAL_PENDING", reason |-> "Awaiting approval",
                   approvalId |-> approval.approvalId,
                   approvals |-> approval.approvals]
             ELSE [status |-> IF EvaluateConditions THEN "PASSED" ELSE "FAILED",
                   reason |-> "NONE",
                   approvalId |-> approval.approvalId,
                   approvals |-> approval.approvals]

\* the entry evaluatePolicyGates pushes on gateResults for gate g
GateResult(g, r) ==
    [gateName |-> g.gateName, status |-> r.status, reason |-> r.reason]

\* the inner loop of evaluatePolicyGates over the applicable gates of one
\* policy, from the results and the approvals the call has so far: break
\* leaves this loop once a gate that does not allow partial execution has
\* FAILED
RECURSIVE EvaluateGatesOfPolicy(_, _, _, _)
EvaluateGatesOfPolicy(gates, p, results, reqs) ==
    IF gates = <<>>
    THEN [results |-> results, approvals |-> reqs]
    ELSE LET g == Head(gates)
             r == EvaluateGate(g, p, reqs, FALSE)
         IN  IF r.status = "FAILED" /\ ~ g.allowPartialExecution
             THEN [results |-> Append(results, GateResult(g, r)),
                   approvals |-> r.approvals]
             ELSE EvaluateGatesOfPolicy(Tail(gates), p,
                                        Append(results, GateResult(g, r)),
                                        r.approvals)

\* the outer loop of evaluatePolicyGates over applicablePolicies, which
\* findApplicablePolicies gives by descending priority; policies[k].gates
\* is what policy.getApplicableGates returns.  Nothing ends this loop
\* before the last policy.
RECURSIVE EvaluatePoliciesFrom(_, _, _)
EvaluatePoliciesFrom(policies, results, reqs) ==
    IF policies = <<>>
    THEN [results |-> results, approvals |-> reqs]
    ELSE LET e == EvaluateGatesOfPolicy(Head(policies).gates,
                                        Head(policies).policy, results, reqs)
         IN  EvaluatePoliciesFrom(Tail(policies), e.results, e.approvals)

\* evaluatePolicyGates(playbook, incident, execution): the gateResults it
\* returns and execution.approvals as it leaves them
EvaluatePolicyGates(policies, reqs) == EvaluatePoliciesFrom(policies, <<>>, reqs)

\* evaluatePolicyGates called on an execution without requests
EvaluatePolicyGatesCall(policies) ==
    /\ approvals = <<>>
    /\ approvals' = EvaluatePolicyGates(policies, approvals).approvals
    /\ UNCHANGED <<gate, policy, auditEvents, lastCall, calls, dbVersion,
                   engineVars, runVars>>

\* a gate with approvers asks for approval: the request joins the execution
GateRequestsApproval ==
    /\ approvals = <<>>
    /\ GetApproversForGate(gate) # <<>>
    /\ approvals' = RequestApprovalFromGate(gate, approvals).approvals
    /\ UNCHANGED <<gate, policy, auditEvents, lastCall, calls, dbVersion,
                   engineVars, runVars>>

\* requestApprovalFromGate(gate, policy, incident, execution), the whole
\* method: the request is pushed on execution.approvals, then the approvers
\* are notified, then setupEscalation arms the timers of the request
RequestApprovalFromGateCall(notifyFails) ==
    LET approval == RequestApprovalFromGate(gate, approvals)
    IN  /\ approvals = <<>>
        /\ approvals' = approval.approvals
        /\ notifications' =
              IF approval.status = "PENDING"
              THEN notifications \o
                   NotifyApprovers(approvals'[approval.approvalId].approvers,
                                   approval.approvalId, notifyFails)
              ELSE notifications
        /\ UNCHANGED <<gate, policy, auditEvents, lastCall, calls, dbVersion,
                       engineVars, playbook, playbookStored, status,
                       stageNumber, lastError, newExecutions, leaseVars,
                       escalation>>

\* ------------------------------------- processApprovalDecision, step by step
\* Two awaits cut the handler: PlaybookExecution.findOne and execution.save.
\* Between them it runs on the document it loaded.
IdleCall ==
    [pc |-> "idle", approvalId |-> 0, userId |-> 0, decision |-> "NONE",
     doc |-> <<>>, version |-> 0, outcome |-> "NONE"]

\* await PlaybookExecution.findOne({'approvals.approvalId': approvalId})
FindOne(c, approvalId, userId, decision) ==
    /\ calls[c].pc = "idle"
    /\ calls' = [calls EXCEPT ![c] =
                    [pc |-> "loaded", approvalId |-> approvalId, userId |-> userId,
                     decision |-> decision, doc |-> approvals,
                     version |-> dbVersion, outcome |-> "NONE"]]
    /\ UNCHANGED <<gate, policy, approvals, auditEvents, lastCall, dbVersion,
                   engineVars, runVars>>

\* the checks, the push, the status, and await execution.save().  The push
\* on approvals.<i>.approvals / .denials makes the write carry the version
\* read at load and increment it: on a stale document the write is
\* rejected (VersionError), and the catch block rethrows it.
CheckAndSave(c) ==
    LET call == calls[c]
        outcome == DecisionOutcome(call.doc, call.approvalId, call.userId)
        fresh == call.version = dbVersion
    IN  /\ call.pc = "loaded"
        /\ IF outcome # "OK"
           THEN /\ calls' = [calls EXCEPT ![c].pc = "done", ![c].outcome = outcome]
                /\ UNCHANGED <<approvals, dbVersion>>
           ELSE IF fresh
           THEN /\ approvals' = Decided(call.doc, call.approvalId,
                                        call.userId, call.decision)
                /\ dbVersion' = dbVersion + 1
                /\ calls' = [calls EXCEPT ![c].pc = "done", ![c].outcome = "OK"]
           ELSE /\ calls' = [calls EXCEPT ![c].pc = "done",
                                          ![c].outcome = "VERSION_ERROR"]
                /\ UNCHANGED <<approvals, dbVersion>>
        /\ UNCHANGED <<gate, policy, auditEvents, lastCall, engineVars, runVars>>


\* ------------------------------------------------------------ audit log
\* a parameter the caller leaves out
Undefined == "undefined"

\* a plausible slip: the event goes to the front of the log
AddAuditEventUnshift(log, event, details, actor, now) ==
    <<[timestamp |-> now, event |-> event, details |-> details,
       actor |-> IF actor = Undefined THEN "SYSTEM" ELSE actor]>> \o log

\* execution.addAuditEvent(event, details, actor = 'SYSTEM')
AddAuditEvent(log, event, details, actor, now) ==
    Append(log, [timestamp |-> now, event |-> event, details |-> details,
                 actor |-> IF actor = Undefined THEN "SYSTEM" ELSE actor])

\* the event the engine writes when an ActionExecution changes its status
ActionStatusEvent(log, ae, now) ==
    AddAuditEvent(log, "ACTION_STATUS", <<ae.actionId, ae.status>>, Undefined, now)

\* the event the engine writes when the execution changes its status
ExecutionStatusEvent(log, newStatus, now) ==
    AddAuditEvent(log, "PLAYBOOK_STATUS", <<newStatus>>, Undefined, now)

\* ------------------------------------------------------ action dispatch
\* The one action of the run.
ActionId == "a1"

RECURSIVE Pow(_, _)
Pow(b, e) == IF e = 0 THEN 1 ELSE b * Pow(b, e - 1)

\* a plausible slip: a delay that grows by backoffMs each time
BackoffDelayLinear(cfg, i) == cfg.backoffMs * (i + 1)

\* the delay before retry i (i = 0 for the first retry):
\* retryConfig.backoffMs * Math.pow(retryConfig.backoffMultiplier, i)
BackoffDelay(cfg, i) == cfg.backoffMs * Pow(cfg.backoffMultiplier, i)

\* a plausible slip: one retry too many
RetryLeftOffByOne(cfg, i) == i <= cfg.maxRetries

\* retry i (i = 0 for the first retry) is made while i < maxRetries
RetryLeft(cfg, i) == i < cfg.maxRetries

\* generateIdempotencyKey(action): the action id and the time of the call;
\* two calls for one action give two keys
GenerateIdempotencyKey(actionId, now) == <<actionId, now>>

Terminal(ae) == ae.status \in {"SUCCESS", "FAILED", "COMPENSATED", "SKIPPED"}

\* actionExecution.compensation of an action without a compensatingAction
NoCompensation ==
    [required |-> FALSE, mandatory |-> FALSE, status |-> "NOT_REQUIRED",
     dispatches |-> 0]

\* actionExecution.compensation of an action with a compensatingAction,
\* before the compensation has run
CompensationOf(actionSpec) ==
    IF actionSpec.compensatingAction
    THEN [required |-> TRUE, mandatory |-> actionSpec.compensationMandatory,
          status |-> "PENDING", dispatches |-> 0]
    ELSE NoCompensation

\* the action failed after its retries and its compensation has yet to run
CompensationDue(ae) ==
    /\ ae.status = "FAILED"
    /\ ae.error = "RETRIES_EXHAUSTED"
    /\ ae.compensation.status = "PENDING"

NewActionExecution(key) ==
    [actionId |-> ActionId, status |-> "PENDING", idempotencyKey |-> key,
     compensation |-> NoCompensation,
     isIdempotentRetry |-> FALSE, retryCount |-> 0, retryDetails |-> <<>>,
     error |-> "NONE", approvalId |-> 0, approvalOutcome |-> "NONE",
     gateStatus |-> "NONE", gateReason |-> "NONE",
     pendingDelay |-> 0, handlerCalls |-> 0, lateHandlers |-> 0]

\* the ActionExecution once the gate has answered
AfterGate(ae, g) ==
    [ae EXCEPT
        !.gateStatus = g.status,
        !.gateReason = g.reason,
        !.approvalId = g.approvalId,
        !.status = CASE g.status = "PASSED" -> "EXECUTING"
                     [] g.status = "FAILED" -> "FAILED"
                     [] OTHER -> "APPROVAL_PENDING",
        !.error = IF g.status = "FAILED" THEN "APPROVAL_DENIED" ELSE "NONE"]

\* dispatch(actionSpec, execution) up to the first attempt: the key, the
\* search for a SUCCESS under that key, then the approval gate.
Dispatch(userFindFails) ==
    /\ Len(actionExecutions) < MaxDispatches
    /\ \A i \in DOMAIN actionExecutions : Terminal(actionExecutions[i])
    /\ clock' = clock + 1
    /\ LET key == GenerateIdempotencyKey(ActionId, clock)
           done == {i \in DOMAIN actionExecutions :
                       /\ actionExecutions[i].idempotencyKey = key
                       /\ actionExecutions[i].status = "SUCCESS"}
           g == EvaluateGate(gate, policy, approvals, userFindFails)
       IN  IF done # {}
           THEN /\ actionExecutions' =
                      [i \in DOMAIN actionExecutions |->
                          IF i \in done
                          THEN [actionExecutions[i] EXCEPT !.isIdempotentRetry = TRUE]
                          ELSE actionExecutions[i]]
                /\ UNCHANGED <<approvals, auditEvents>>
           ELSE /\ actionExecutions' = Append(actionExecutions,
                      AfterGate(NewActionExecution(key), g))
                /\ approvals' = g.approvals
                /\ auditEvents' = ActionStatusEvent(auditEvents,
                      AfterGate(NewActionExecution(key), g), clock)
    /\ UNCHANGED <<gate, policy, lastCall, calls, dbVersion, retryConfig, runVars>>

\* the wait on the ApprovalRequest ends once the request is resolved
ApprovalResolved ==
    \E i \in DOMAIN actionExecutions :
        LET ae == actionExecutions[i]
        IN  /\ ae.status = "APPROVAL_PENDING"
            /\ ae.approvalId \in DOMAIN approvals
            /\ approvals[ae.approvalId].status \in {"APPROVED", "DENIED"}
            /\ actionExecutions' = [actionExecutions EXCEPT ![i] =
                  IF approvals[ae.approvalId].status = "APPROVED"
                  THEN [ae EXCEPT !.status = "EXECUTING",
                                  !.approvalOutcome = "APPROVED"]
                  ELSE [ae EXCEPT !.status = "FAILED",
                                  !.error = "APPROVAL_DENIED",
                                  !.approvalOutcome = "DENIED"]]
            /\ auditEvents' = ActionStatusEvent(auditEvents,
                                  actionExecutions'[i], clock)
            /\ UNCHANGED <<gate, policy, approvals, lastCall,
                           calls, dbVersion, retryConfig, clock, runVars>>

\* one attempt of the retry loop: the handler runs and succeeds or fails;
\* after a failure with a retry left the loop computes the delay it waits
\* before the next attempt, which records it
HandlerAttempt(ok) ==
    \E i \in DOMAIN actionExecutions :
        LET ae == actionExecutions[i]
            n == Len(ae.retryDetails) + 1
            retryLeft == RetryLeft(retryConfig, n - 1)
        IN  /\ ae.status = "EXECUTING"
            /\ actionExecutions' = [actionExecutions EXCEPT ![i] =
                  [ae EXCEPT
                      !.retryDetails = Append(@, [attemptNumber |-> n,
                                                  ok |-> ok,
                                                  reason |-> IF ok THEN "NONE"
                                                             ELSE "ERROR",
                                                  backoffDelayMs |-> ae.pendingDelay]),
                      !.handlerCalls = @ + 1,
                      !.retryCount = n - 1,
                      !.status = IF ok THEN "SUCCESS"
                                 ELSE IF retryLeft THEN "EXECUTING" ELSE "FAILED",
                      !.error = IF ok \/ retryLeft THEN "NONE" ELSE "RETRIES_EXHAUSTED",
                      !.pendingDelay = IF ~ ok /\ retryLeft
                                       THEN BackoffDelay(retryConfig, n - 1) ELSE 0]]
            /\ auditEvents' = IF actionExecutions'[i].status # "EXECUTING"
                              THEN ActionStatusEvent(auditEvents,
                                      actionExecutions'[i], clock)
                              ELSE auditEvents
            /\ UNCHANGED <<gate, policy, approvals, lastCall,
                           calls, dbVersion, retryConfig, clock, runVars>>

\* one attempt of the retry loop whose handler has not answered within
\* action.timeoutMs: the attempt is recorded as failed with the reason
\* TIMEOUT and the loop goes on as after any failure; the call of the handler
\* is still under way
AttemptTimeout ==
    \E i \in DOMAIN actionExecutions :
        LET ae == actionExecutions[i]
            n == Len(ae.retryDetails) + 1
            retryLeft == RetryLeft(retryConfig, n - 1)
        IN  /\ ae.status = "EXECUTING"
            /\ actionExecutions' = [actionExecutions EXCEPT ![i] =
                  [ae EXCEPT
                      !.retryDetails = Append(@, [attemptNumber |-> n,
                                                  ok |-> FALSE,
                                                  reason |-> "TIMEOUT",
                                                  backoffDelayMs |-> ae.pendingDelay]),
                      !.handlerCalls = @ + 1,
                      !.lateHandlers = @ + 1,
                      !.retryCount = n - 1,
                      !.status = IF retryLeft THEN "EXECUTING" ELSE "FAILED",
                      !.error = IF retryLeft THEN "NONE" ELSE "RETRIES_EXHAUSTED",
                      !.pendingDelay = IF retryLeft
                                       THEN BackoffDelay(retryConfig, n - 1) ELSE 0]]
            /\ auditEvents' = IF actionExecutions'[i].status # "EXECUTING"
                              THEN ActionStatusEvent(auditEvents,
                                      actionExecutions'[i], clock)
                              ELSE auditEvents
            /\ UNCHANGED <<gate, policy, approvals, lastCall,
                           calls, dbVersion, retryConfig, clock, runVars>>

\* a plausible slip: whatever the handler answers settles the action
LateResultSettles(ae, ok) ==
    [ae EXCEPT !.lateHandlers = @ - 1,
               !.status = IF ok THEN "SUCCESS" ELSE @,
               !.error = IF ok THEN "NONE" ELSE @]

\* what the answer of a handler whose attempt has timed out does to the
\* ActionExecution: the call is over and the answer is dropped
LateResult(ae, ok) == [ae EXCEPT !.lateHandlers = @ - 1]

\* the handler of an attempt that timed out answers at last
HandlerAnswersLate(ok) ==
    \E i \in DOMAIN actionExecutions :
        /\ actionExecutions[i].lateHandlers > 0
        /\ actionExecutions' = [actionExecutions EXCEPT ![i] =
                                   LateResult(actionExecutions[i], ok)]
        /\ UNCHANGED <<gate, policy, approvals, auditEvents, lastCall,
                       calls, dbVersion, retryConfig, clock, runVars>>

\* a plausible slip: a compensation that succeeds marks the action itself
\* COMPENSATED, as markCompensated does with the audit record of the action
ExecuteCompensationMarksAction(ok) ==
    \E i \in DOMAIN actionExecutions :
        LET ae == actionExecutions[i]
        IN  /\ CompensationDue(ae)
            /\ actionExecutions' = [actionExecutions EXCEPT ![i] =
                  [ae EXCEPT
                      !.status = IF ok THEN "COMPENSATED" ELSE @,
                      !.compensation.status = IF ok THEN "SUCCESS" ELSE "FAILED",
                      !.compensation.dispatches = @ + 1]]
            /\ auditEvents' = AddAuditEvent(auditEvents, "ACTION_COMPENSATION",
                  <<ae.actionId, actionExecutions'[i].compensation.status>>,
                  Undefined, clock)
            /\ UNCHANGED <<gate, policy, approvals, lastCall,
                           calls, dbVersion, retryConfig, clock, runVars>>

\* executeCompensation(action, execution): after the last attempt of an
\* action with a compensatingAction has failed, the compensating action is
\* dispatched through the wrapper, once; ok is the outcome of that dispatch,
\* its own retries included.  The outcome goes to the compensation record of
\* the ActionExecution, whose status stays FAILED.
ExecuteCompensation(ok) ==
    \E i \in DOMAIN actionExecutions :
        LET ae == actionExecutions[i]
        IN  /\ CompensationDue(ae)
            /\ actionExecutions' = [actionExecutions EXCEPT ![i] =
                  [ae EXCEPT
                      !.compensation.status = IF ok THEN "SUCCESS" ELSE "FAILED",
                      !.compensation.dispatches = @ + 1]]
            /\ auditEvents' = AddAuditEvent(auditEvents, "ACTION_COMPENSATION",
                  <<ae.actionId, actionExecutions'[i].compensation.status>>,
                  Undefined, clock)
            /\ UNCHANGED <<gate, policy, approvals, lastCall,
                           calls, dbVersion, retryConfig, clock, runVars>>

\* --------------------------------------------------- the run of a playbook
\* a plausible slip: the rules are not looked at
CanExecuteIgnoresRules(p) == p.enabled /\ Len(p.actions) > 0

\* playbook.canExecute()
CanExecute(p) == p.enabled /\ Len(p.actions) > 0 /\ p.rules > 0

\* a plausible slip: the enabled flag is not looked at
GetActionsByStageAny(p, stage) ==
    SelectSeq(p.actions, LAMBDA action : action.stage = stage)

\* evaluateCondition(action.condition, context) for the action of a stage
\* that is about to start; action.condition says what the condition string
\* comes to in the context of the run, NONE for an action without one
ConditionHolds(action) == action.condition # "FALSE"

\* playbook.getActionsByStage(stage)
GetActionsByStage(p, stage) ==
    SelectSeq(p.actions, LAMBDA action : action.stage = stage /\ action.enabled)

\* the highest stage present in the playbook, 0 without actions
HighestStage(p) ==
    IF Len(p.actions) = 0 THEN 0
    ELSE CHOOSE n \in {p.actions[i].stage : i \in DOMAIN p.actions} :
            \A i \in DOMAIN p.actions : p.actions[i].stage <= n

\* a plausible slip: the barrier opens when one action has ended
StageResolvedAny(aes) ==
    aes = <<>> \/ \E i \in DOMAIN aes : Terminal(aes[i])

\* the barrier: every action dispatched so far has a terminal status, and
\* the compensation of a failed one has run
StageResolved(aes) ==
    \A i \in DOMAIN aes : Terminal(aes[i]) /\ ~ CompensationDue(aes[i])

\* a plausible slip: any failed action halts the run
HaltedByAnyFailure(aes) == \E i \in DOMAIN aes : aes[i].status = "FAILED"

\* the halt signal: a mandatory compensation has failed
Halted(aes) ==
    \E i \in DOMAIN aes :
        /\ aes[i].compensation.mandatory
        /\ aes[i].compensation.status = "FAILED"

\* a plausible slip: one failure fails the run
CalculateExecutionStatusAnyFailed(aes) ==
    IF \E i \in DOMAIN aes : aes[i].status = "FAILED" THEN "FAILED"
    ELSE IF \A i \in DOMAIN aes : aes[i].status = "SUCCESS" THEN "COMPLETED"
    ELSE "PARTIALLY_COMPLETED"

\* calculateExecutionStatus(execution)
CalculateExecutionStatus(aes) ==
    LET successful == Cardinality({i \in DOMAIN aes : aes[i].status = "SUCCESS"})
    IN  IF successful = 0 THEN "FAILED"
        ELSE IF successful = Len(aes) THEN "COMPLETED"
        ELSE "PARTIALLY_COMPLETED"

\* the playbook as IncidentPlaybook.findById returns it now
StoredPlaybook ==
    [playbook EXCEPT !.enabled = playbookStored.enabled,
                     !.actions = playbookStored.actions]

\* POST /executions/trigger and the start of executePlaybook: the playbook
\* is looked up and checked, and the execution is created INITIATED for
\* the playbook as it was loaded
TriggerExecution ==
    /\ status = "NONE"
    /\ IF ~ playbookStored.found
       THEN /\ lastError' = "Playbook not found"
            /\ UNCHANGED <<status, auditEvents, playbook>>
       ELSE IF ~ CanExecute(StoredPlaybook)
       THEN /\ lastError' = "InvalidPlaybookError"
            /\ UNCHANGED <<status, auditEvents, playbook>>
       ELSE /\ lastError' = "NONE"
            /\ playbook' = StoredPlaybook
            /\ status' = "INITIATED"
            /\ auditEvents' = ExecutionStatusEvent(auditEvents, "INITIATED", clock)
    /\ UNCHANGED <<gate, policy, approvals, lastCall, calls, dbVersion, engineVars,
                   playbookStored, stageNumber, newExecutions,
                   leaseVars, timerVars>>

\* executePlaybook: the run begins
StartRun ==
    /\ status = "INITIATED"
    /\ status' = "RUNNING"
    /\ auditEvents' = ExecutionStatusEvent(auditEvents, "RUNNING", clock)
    /\ UNCHANGED <<gate, policy, approvals, lastCall, calls, dbVersion, engineVars,
                   playbook, playbookStored, stageNumber, lastError, newExecutions,
                   leaseVars, timerVars>>

\* executeStage: once the stage before has resolved, the enabled actions of
\* the next stage whose condition holds are dispatched together, each
\* PENDING at first
ExecuteStage ==
    /\ status = "RUNNING"
    /\ stageNumber < HighestStage(playbook)
    /\ StageResolved(actionExecutions)
    /\ ~ Halted(actionExecutions)
    /\ stageNumber' = stageNumber + 1
    /\ LET stageActions == SelectSeq(GetActionsByStage(playbook, stageNumber + 1),
                                     ConditionHolds)
       IN  actionExecutions' = actionExecutions \o
              [k \in DOMAIN stageActions |->
                  [NewActionExecution(<<>>) EXCEPT
                      !.actionId = stageActions[k].actionId,
                      !.compensation = CompensationOf(stageActions[k])]]
    /\ UNCHANGED <<gate, policy, approvals, auditEvents, lastCall, calls, dbVersion,
                   retryConfig, clock, playbook, playbookStored, status, lastError,
                   newExecutions,
                   leaseVars, timerVars>>

\* executeAction: one dispatched action leaves PENDING: the key, the search
\* for a SUCCESS under the key, the gate
ExecuteAction(i, userFindFails) ==
    LET ae == actionExecutions[i]
        key == GenerateIdempotencyKey(ae.actionId, clock)
        done == {j \in DOMAIN actionExecutions :
                    /\ actionExecutions[j].idempotencyKey = key
                    /\ actionExecutions[j].status = "SUCCESS"}
        g == EvaluateGate(gate, policy, approvals, userFindFails)
        started == AfterGate([ae EXCEPT !.idempotencyKey = key], g)
    IN  /\ status = "RUNNING"
        /\ ae.status = "PENDING"
        /\ clock' = clock + 1
        /\ IF done # {}
           THEN /\ actionExecutions' =
                      [j \in DOMAIN actionExecutions |->
                          IF j \in done
                          THEN [actionExecutions[j] EXCEPT !.isIdempotentRetry = TRUE]
                          ELSE IF j = i
                          THEN [ae EXCEPT !.status = "SKIPPED"]
                          ELSE actionExecutions[j]]
                /\ UNCHANGED approvals
           ELSE /\ actionExecutions' = [actionExecutions EXCEPT ![i] = started]
                /\ approvals' = g.approvals
        /\ auditEvents' = ActionStatusEvent(auditEvents, actionExecutions'[i], clock)
        /\ UNCHANGED <<gate, policy, lastCall, calls, dbVersion, retryConfig, runVars>>

\* executePlaybook, after the last stage has resolved: the final status
CompleteExecution ==
    /\ status = "RUNNING"
    /\ stageNumber >= HighestStage(playbook) \/ Halted(actionExecutions)
    /\ StageResolved(actionExecutions)
    /\ status' = CalculateExecutionStatus(actionExecutions)
    /\ auditEvents' = ExecutionStatusEvent(auditEvents, status', clock)
    /\ UNCHANGED <<gate, policy, approvals, lastCall, calls, dbVersion, engineVars,
                   playbook, playbookStored, stageNumber, lastError, newExecutions,
                   leaseVars, timerVars>>

\* a plausible slip: a run that has ended can still be cancelled
CancellableEnded(s) == s \notin {"NONE", "ROLLED_BACK"}

\* cancelExecution: only a run that has not ended can be cancelled
Cancellable(s) == s \in {"INITIATED", "RUNNING"}

\* the denial cancelExecution records on a request: by no user, with the
\* reason EXECUTION_CANCELLED
ExecutionCancelled == 0

\* a plausible slip: the actions in flight are left as they are
CancelActionKeepsInFlight(ae) == ae

\* cancelExecution: an action that has not ended is given up
CancelAction(ae) ==
    IF Terminal(ae) THEN ae
    ELSE [ae EXCEPT !.status = "FAILED", !.error = "EXECUTION_CANCELLED"]

\* cancelExecution(executionId): the run ends FAILED, the actions in
\* flight are given up and the requests still PENDING are DENIED
CancelExecution ==
    /\ Cancellable(status)
    /\ status' = "FAILED"
    /\ actionExecutions' =
          [i \in DOMAIN actionExecutions |-> CancelAction(actionExecutions[i])]
    /\ approvals' =
          [i \in DOMAIN approvals |->
              IF approvals[i].status = "PENDING"
              THEN [approvals[i] EXCEPT
                       !.status = "DENIED",
                       !.denials = Append(@, [deniedBy |-> ExecutionCancelled])]
              ELSE approvals[i]]
    /\ auditEvents' = ExecutionStatusEvent(auditEvents, "FAILED", clock)
    /\ UNCHANGED <<gate, policy, lastCall, calls, dbVersion, retryConfig, clock,
                   playbook, playbookStored, stageNumber, lastError, newExecutions,
                   leaseVars, timerVars>>

\* attemptCompensation(execution): the full rollback of a run that has ended
AttemptCompensation ==
    /\ status \in {"PARTIALLY_COMPLETED", "COMPLETED", "FAILED"}
    /\ status' = "ROLLED_BACK"
    /\ actionExecutions' =
          [i \in DOMAIN actionExecutions |->
              IF actionExecutions[i].status = "SUCCESS"
              THEN [actionExecutions[i] EXCEPT !.status = "COMPENSATED"]
              ELSE actionExecutions[i]]
    /\ auditEvents' = ExecutionStatusEvent(auditEvents, "ROLLED_BACK", clock)
    /\ UNCHANGED <<gate, policy, approvals, lastCall, calls, dbVersion, retryConfig,
                   clock, playbook, playbookStored, stageNumber, lastError,
                   newExecutions,
                   leaseVars, timerVars>>

\* the run, started when the clock was 0, has gone on for longer than
\* playbook.maxExecutionTimeMs and has not ended
CeilingExceeded == status = "RUNNING" /\ clock > playbook.maxExecutionTimeMs

\* a plausible slip: the status of a run stopped at the ceiling is worked
\* out from its actions, as at the end of the last stage
TimedOutStatusCalculated(aes) == CalculateExecutionStatus(aes)

\* the status the engine forces at the ceiling
TimedOutStatus(aes) == "FAILED"

\* the ceiling: an action that has not ended is given up
TimeOutAction(ae) ==
    IF Terminal(ae) THEN ae
    ELSE [ae EXCEPT !.status = "FAILED", !.error = "EXECUTION_TIMEOUT"]

\* the engine finds the run over its ceiling: the run is forced to FAILED
\* and its actions in flight are given up; the compensation pass follows
ExecutionTimeout ==
    /\ CeilingExceeded
    /\ status' = TimedOutStatus(actionExecutions)
    /\ actionExecutions' =
          [i \in DOMAIN actionExecutions |-> TimeOutAction(actionExecutions[i])]
    /\ auditEvents' = ExecutionStatusEvent(auditEvents, status', clock)
    /\ UNCHANGED <<gate, policy, approvals, lastCall, calls, dbVersion, retryConfig,
                   clock, playbook, playbookStored, stageNumber, lastError,
                   newExecutions, leaseVars, timerVars>>

\* the id of the execution the run variables describe
OriginalExecutionId == 1

\* a plausible slip: the retry restarts the execution it was asked about
RetryExecutionInPlace ==
    /\ Len(newExecutions) < MaxNewExecutions
    /\ IF status = "NONE"
       THEN lastError' = "Execution not found" /\ UNCHANGED <<status, newExecutions>>
       ELSE IF status = "RUNNING"
       THEN lastError' = "Cannot retry running execution"
            /\ UNCHANGED <<status, newExecutions>>
       ELSE IF ~ playbookStored.found
       THEN lastError' = "Playbook not found" /\ UNCHANGED <<status, newExecutions>>
       ELSE IF ~ CanExecute(StoredPlaybook)
       THEN lastError' = "InvalidPlaybookError" /\ UNCHANGED <<status, newExecutions>>
       ELSE /\ lastError' = "NONE"
            /\ status' = "INITIATED"
            /\ newExecutions' = Append(newExecutions,
                  [executionId |-> OriginalExecutionId + Len(newExecutions), status |-> "INITIATED",
                   actionExecutions |-> <<>>, approvals |-> <<>>])
    /\ UNCHANGED <<gate, policy, approvals, auditEvents, lastCall, calls, dbVersion,
                   engineVars, playbook, playbookStored, stageNumber,
                   leaseVars, timerVars>>

\* POST /executions/:executionId/retry
RetryExecution ==
    /\ Len(newExecutions) < MaxNewExecutions
    /\ IF status = "NONE"
       THEN lastError' = "Execution not found" /\ UNCHANGED newExecutions
       ELSE IF status = "RUNNING"
       THEN lastError' = "Cannot retry running execution" /\ UNCHANGED newExecutions
       ELSE IF ~ playbookStored.found
       THEN lastError' = "Playbook not found" /\ UNCHANGED newExecutions
       ELSE IF ~ CanExecute(StoredPlaybook)
       THEN lastError' = "InvalidPlaybookError" /\ UNCHANGED newExecutions
       ELSE /\ lastError' = "NONE"
            /\ newExecutions' = Append(newExecutions,
                  [executionId |-> OriginalExecutionId + Len(newExecutions) + 1, status |-> "INITIATED",
                   actionExecutions |-> <<>>, approvals |-> <<>>])
    /\ UNCHANGED <<gate, policy, approvals, auditEvents, lastCall, calls, dbVersion,
                   engineVars, playbook, playbookStored, status, stageNumber,
                   leaseVars, timerVars>>

\* PUT /:playbookId with enabled in the body
UpdatePlaybook(enabled) ==
    /\ playbookStored.found
    /\ playbookStored' = [playbookStored EXCEPT !.enabled = enabled]
    /\ UNCHANGED <<gate, policy, approvals, auditEvents, lastCall, calls, dbVersion,
                   engineVars, playbook, status, stageNumber, lastError, newExecutions,
                   leaseVars, timerVars>>

\* PUT /:playbookId with actions in the body: the actions of the stored
\* document are replaced where they are.  playbook.version is incremented
\* and the change is noted in changeLog as a line of text; nothing reads
\* either, and the model leaves them out.
UpdatePlaybookActions(actions) ==
    /\ playbookStored.found
    /\ playbookStored' = [playbookStored EXCEPT !.actions = actions]
    /\ UNCHANGED <<gate, policy, approvals, auditEvents, lastCall, calls, dbVersion,
                   engineVars, playbook, status, stageNumber, lastError, newExecutions,
                   leaseVars, timerVars>>

\* DELETE /:playbookId
DeletePlaybook ==
    /\ playbookStored.found
    /\ playbookStored' = [playbookStored EXCEPT !.found = FALSE]
    /\ UNCHANGED <<gate, policy, approvals, auditEvents, lastCall, calls, dbVersion,
                   engineVars, playbook, status, stageNumber, lastError, newExecutions,
                   leaseVars, timerVars>>

\* ------------------------------------------------- escalation timers
\* setupEscalation(gate, approval, incident, execution) arms one timer per
\* entry of gate.escalationPath, all of them when the request is created and
\* each with the entry's own delayMs.  A request of the model has its timers
\* from the moment it is in execution.approvals; escalation.fired holds the
\* <<approvalId, level>> pairs whose callback has run, escalation.notified
\* the escalation notices sent, in the order they were sent.

\* an escalateTo that User.findById does not find
NoSuchUser == 0

NoEscalation == [path |-> <<>>, fired |-> {}, notified |-> <<>>]

\* setTimeout: of the timers armed together, the one with the smaller delay
\* runs first, and of two with the same delay the one armed first
RunsBefore(path, j, k) ==
    \/ path[j].delayMs < path[k].delayMs
    \/ path[j].delayMs = path[k].delayMs /\ j < k

\* the callback of one timer of setupEscalation: it reloads the execution,
\* and if the request is still PENDING and the escalateTo user exists, that
\* user is notified; nothing of the execution is written
EscalationTimer(a, k) ==
    /\ a \in DOMAIN approvals
    /\ k \in DOMAIN escalation.path
    /\ <<a, k>> \notin escalation.fired
    /\ \A j \in DOMAIN escalation.path :
          RunsBefore(escalation.path, j, k) => <<a, j>> \in escalation.fired
    /\ escalation' =
         [escalation EXCEPT
            !.fired = @ \cup {<<a, k>>},
            !.notified =
                IF /\ approvals[a].status = "PENDING"
                   /\ escalation.path[k].escalateTo # NoSuchUser
                THEN Append(@, <<a, k>>)
                ELSE @]
    /\ UNCHANGED <<gate, policy, approvals, auditEvents, lastCall, calls,
                   dbVersion, engineVars, playbook, playbookStored, status,
                   stageNumber, lastError, newExecutions, leaseVars,
                   notifications>>

\* ------------------------------------------------ the lease on an execution
Owners == 1..NumOwners

\* the lease-timeout, in ticks of the clock
LeaseTimeout == 2

\* the execution record before any owner has taken it
NoLease == [owner |-> 0, expiresAt |-> 0, epoch |-> 0, loaded |-> <<>>]

\* a plausible slip: the expiry of the lease is not looked at
ReclaimableAlways(l, now) == TRUE

\* the lease can be taken: nobody holds it, or its timeout has elapsed
\* since it was taken or last renewed
Reclaimable(l, now) == l.owner = 0 \/ now >= l.expiresAt

\* owner o holds the lease and the lease has not expired
Holds(o) == o # 0 /\ lease.owner = o /\ clock < lease.expiresAt

\* a plausible slip: a resumed run starts over from its first stage
ResumeStageFromStart(p, aes) == 0

\* the stage a resumed run is in: the highest stage whose actions the
\* persisted execution holds, 0 when it holds none
ResumeStage(p, aes) ==
    IF aes = <<>> THEN 0
    ELSE LET stages == {p.actions[aes[i].actionId].stage : i \in DOMAIN aes}
         IN  CHOOSE n \in stages : \A m \in stages : m <= n

\* the playbook of the run an owner takes up: the first owner is the process
\* executePlaybook was called in, with the document the route had loaded;
\* an owner that resumes has the persisted execution, which names its
\* playbook by playbookId alone, and loads that document as it is stored
ResumePlaybook == IF lease.epoch = 0 THEN playbook ELSE StoredPlaybook

\* resume(executionId), and the first start of the loop: the owner takes
\* the lease of an execution that has not ended, loads the persisted
\* execution (lease.loaded keeps the statuses it found) and its playbook,
\* and rebuilds its place in the run from them.  A crash of the owner is the
\* owner taking no further step: its lease runs out and is taken here.
Resume(o) ==
    /\ status \in {"INITIATED", "RUNNING"}
    /\ playbookStored.found
    /\ lease.epoch < MaxEpoch
    /\ Reclaimable(lease, clock)
    /\ lease' = [owner |-> o, expiresAt |-> clock + LeaseTimeout,
                 epoch |-> lease.epoch + 1,
                 loaded |-> [i \in DOMAIN actionExecutions |->
                                actionExecutions[i].status]]
    /\ acting' = o
    /\ playbook' = ResumePlaybook
    /\ stageNumber' = ResumeStage(playbook', actionExecutions)
    /\ UNCHANGED <<gate, policy, approvals, auditEvents, lastCall, calls, dbVersion,
                   engineVars, playbookStored, status, lastError,
                   newExecutions, timerVars>>

\* the owner renews the lease it holds
RenewLease ==
    /\ Holds(acting)
    /\ lease' = [lease EXCEPT !.expiresAt = clock + LeaseTimeout]
    /\ UNCHANGED <<gate, policy, approvals, auditEvents, lastCall, calls, dbVersion,
                   engineVars, playbook, playbookStored, status, stageNumber,
                   lastError, newExecutions, acting, timerVars>>

\* the process of owner o, started before, is the one that runs now; what
\* it does next depends on the lease
Wake(o) ==
    /\ status \in {"INITIATED", "RUNNING"}
    /\ lease.epoch > 0
    /\ acting # o
    /\ acting' = o
    /\ UNCHANGED <<gate, policy, approvals, auditEvents, lastCall, calls, dbVersion,
                   engineVars, playbook, playbookStored, status, stageNumber,
                   lastError, newExecutions, lease, timerVars>>

\* time passes; it is counted while a run is under way, up to the expiry
\* of its lease
Tick ==
    /\ status \in {"INITIATED", "RUNNING"}
    /\ clock < lease.expiresAt
    /\ clock < MaxTime
    /\ clock' = clock + 1
    /\ UNCHANGED <<gate, policy, approvals, auditEvents, lastCall, calls, dbVersion,
                   retryConfig, actionExecutions, runVars>>

Vote ==
    \E approvalId \in 1..2, userId \in Users, decision \in Decisions :
        ProcessApprovalDecision(approvalId, userId, decision)

\* ----------------------------------------------------------- configurations
Prefix(k) == [i \in 1..k |-> i]

RoleConfigs ==
    {<<>>} \cup {<<Prefix(k)>> : k \in 1..NumUsers}
           \cup {<<Prefix(2), <<2, NumUsers>>>>}

Gates ==
    [gateName : {"gate"},
     requiresApproval : BOOLEAN,
     requiredApprovers : 1..MaxRequired,
     approvalRoles : RoleConfigs,
     allowPartialExecution : BOOLEAN]

NoException == <<>>
NoAutoApproval == <<>>

DefaultPolicy ==
    [exceptions |-> NoException, autoApprovalConditions |-> NoAutoApproval,
     fallbackBehavior |-> "ESCALATE_TO_HUMAN"]

Policies ==
    {DefaultPolicy,
     [DefaultPolicy EXCEPT !.fallbackBehavior = "DENY_ACTION"],
     [DefaultPolicy EXCEPT !.fallbackBehavior = "ALLOW_ACTION"],
     [DefaultPolicy EXCEPT !.exceptions =
         <<[enabled |-> TRUE, exemptsTarget |-> TRUE]>>],
     [DefaultPolicy EXCEPT !.exceptions =
         <<[enabled |-> FALSE, exemptsTarget |-> TRUE],
           [enabled |-> TRUE, exemptsTarget |-> FALSE]>>],
     [DefaultPolicy EXCEPT !.autoApprovalConditions =
         <<[holds |-> TRUE, autoApprove |-> TRUE]>>],
     [DefaultPolicy EXCEPT
         !.exceptions = <<[enabled |-> TRUE, exemptsTarget |-> TRUE]>>,
         !.autoApprovalConditions = <<[holds |-> TRUE, autoApprove |-> TRUE]>>],
     [DefaultPolicy EXCEPT !.autoApprovalConditions =
         <<[holds |-> TRUE, autoApprove |-> FALSE],
           [holds |-> FALSE, autoApprove |-> TRUE]>>]}

DefaultRetryConfig ==
    [maxRetries |-> DefaultMaxRetries, backoffMs |-> DefaultBackoffMs,
     backoffMultiplier |-> DefaultBackoffMultiplier]

\* the playbooks of the model: action i has id i; two actions to a stage
StageOf(i) == ((i - 1) \div 2) + 1

ActionSpecs(flags) ==
    [i \in DOMAIN flags |->
        [actionId |-> i, stage |-> StageOf(i), enabled |-> flags[i],
         condition |-> "NONE",
         compensatingAction |-> FALSE, compensationMandatory |-> FALSE]]

OneActionPlaybook ==
    [enabled |-> TRUE, rules |-> 1, actions |-> ActionSpecs(<<TRUE>>)]

\* two actions in stage 1 and one in stage 2
TwoStagePlaybook ==
    [enabled |-> TRUE, rules |-> 1, actions |-> ActionSpecs(<<TRUE, TRUE, TRUE>>)]

\* an execution of a one-action playbook that the engine has started
RunAsStarted ==
    /\ playbook = OneActionPlaybook
    /\ playbookStored = [found |-> TRUE, enabled |-> TRUE,
                         actions |-> playbook.actions]
    /\ status = "RUNNING"
    /\ stageNumber = 1
    /\ lastError = "NONE"
    /\ newExecutions = <<>>
    /\ lease = NoLease
    /\ acting = 0
    /\ escalation = NoEscalation
    /\ notifications = <<>>

\* ----------------------------------------------- votes on one request
InitApproval ==
    /\ gate \in {g \in Gates : g.requiresApproval /\ ~ g.allowPartialExecution}
    /\ policy = DefaultPolicy
    /\ approvals = <<>>
    /\ auditEvents = <<>>
    /\ lastCall = NoLastCall
    /\ calls = [c \in Callers |-> IdleCall]
    /\ dbVersion = 0
    /\ retryConfig = DefaultRetryConfig
    /\ actionExecutions = <<>>
    /\ clock = 0
    /\ RunAsStarted

NextApproval ==
    \/ GateRequestsApproval
    \/ Vote

SpecApproval == InitApproval /\ [][NextApproval]_vars

\* ------------------------------------- concurrent votes on one request
\* a request as requestApprovalFromGate leaves it: PENDING, no vote yet
InitConc ==
    /\ gate \in {g \in Gates : /\ g.requiresApproval
                               /\ ~ g.allowPartialExecution
                               /\ g.approvalRoles = <<Prefix(NumUsers)>>}
    /\ policy = DefaultPolicy
    /\ approvals = <<NewApproval(gate, 1)>>
    /\ auditEvents = <<>>
    /\ lastCall = NoLastCall
    /\ calls = [c \in Callers |-> IdleCall]
    /\ dbVersion = 0
    /\ retryConfig = DefaultRetryConfig
    /\ actionExecutions = <<>>
    /\ clock = 0
    /\ RunAsStarted

NextConc ==
    \/ \E c \in Callers, userId \in Users, decision \in Decisions :
          FindOne(c, 1, userId, decision)
    \/ \E c \in Callers : CheckAndSave(c)

SpecConc == InitConc /\ [][NextConc]_vars

\* ------------------------------- one action behind an approval gate
DispatchGates ==
    {g \in Gates : g.approvalRoles \in {<<>>, <<Prefix(2)>>}}

Init ==
    /\ gate \in DispatchGates
    /\ policy \in Policies
    /\ approvals = <<>>
    /\ auditEvents = <<>>
    /\ lastCall = NoLastCall
    /\ calls = [c \in Callers |-> IdleCall]
    /\ dbVersion = 0
    /\ retryConfig = [DefaultRetryConfig EXCEPT !.maxRetries = 1]
    /\ actionExecutions = <<>>
    /\ clock = 0
    /\ RunAsStarted

Next ==
    \/ \E userFindFails \in BOOLEAN :
          actionExecutions = <<>> /\ Dispatch(userFindFails)
    \/ ApprovalResolved
    \/ \E ok \in BOOLEAN : HandlerAttempt(ok)
    \/ Vote

Spec == Init /\ [][Next]_vars

\* ------------------------- the retry loop, and a dispatch that is repeated
RetryConfigs ==
    [maxRetries : 0..MaxRetries,
     backoffMs : {DefaultBackoffMs, 250},
     backoffMultiplier : {1, DefaultBackoffMultiplier, 3}]

InitRetry ==
    /\ gate \in {g \in Gates : /\ ~ g.requiresApproval
                               /\ ~ g.allowPartialExecution
                               /\ g.requiredApprovers = 1
                               /\ g.approvalRoles = <<>>}
    /\ policy = DefaultPolicy
    /\ approvals = <<>>
    /\ auditEvents = <<>>
    /\ lastCall = NoLastCall
    /\ calls = [c \in Callers |-> IdleCall]
    /\ dbVersion = 0
    /\ retryConfig \in RetryConfigs
    /\ actionExecutions = <<>>
    /\ clock = 0
    /\ RunAsStarted

NextRetry ==
    \/ Dispatch(FALSE)
    \/ \E ok \in BOOLEAN : HandlerAttempt(ok)

SpecRetry == InitRetry /\ [][NextRetry]_vars

\* ---------------------------------- attempts that may run out of time
InitTimeout ==
    /\ gate \in {g \in Gates : /\ ~ g.requiresApproval
                               /\ ~ g.allowPartialExecution
                               /\ g.requiredApprovers = 1
                               /\ g.approvalRoles = <<>>}
    /\ policy = DefaultPolicy
    /\ approvals = <<>>
    /\ auditEvents = <<>>
    /\ lastCall = NoLastCall
    /\ calls = [c \in Callers |-> IdleCall]
    /\ dbVersion = 0
    /\ retryConfig \in {[DefaultRetryConfig EXCEPT !.maxRetries = n] :
                           n \in 0..MaxRetries}
    /\ actionExecutions = <<>>
    /\ clock = 0
    /\ RunAsStarted

NextTimeout ==
    \/ actionExecutions = <<>> /\ Dispatch(FALSE)
    \/ \E ok \in BOOLEAN : HandlerAttempt(ok)
    \/ AttemptTimeout
    \/ \E ok \in BOOLEAN : HandlerAnswersLate(ok)

SpecTimeout == InitTimeout /\ [][NextTimeout]_vars

\* --------------------------- the gates of the policies of a playbook
\* a gate that fails for want of approvers, one that fails and allows
\* partial execution, one that asks two approvers, one that asks nothing
GateKinds ==
    {g \in Gates :
        /\ g.requiredApprovers = 1
        /\ \/ g.requiresApproval /\ g.approvalRoles = <<>>
           \/ g.requiresApproval /\ g.approvalRoles = <<Prefix(2)>>
                                 /\ ~ g.allowPartialExecution
           \/ ~ g.requiresApproval /\ g.approvalRoles = <<>>
                                   /\ ~ g.allowPartialExecution}

\* the gates of policy number i, named by policy and place
NamedGates(i, kinds) ==
    [k \in DOMAIN kinds |-> [kinds[k] EXCEPT !.gateName = <<i, k>>]]

GateLists == UNION {[1..n -> GateKinds] : n \in 1..MaxGates}

\* the applicable policies, by descending priority, each with its
\* applicable gates: up to MaxGates gates in the first policy, one gate in
\* each policy after it
PolicyLists ==
    UNION {{[i \in 1..n |-> [policy |-> DefaultPolicy,
                             gates |-> NamedGates(i, kinds[i])]] :
               kinds \in {ks \in [1..n -> GateLists] :
                             \A i \in 2..n : Len(ks[i]) = 1}} :
           n \in 1..MaxPolicies}

InitGates ==
    /\ gate \in {g \in Gates : /\ g.requiresApproval
                               /\ ~ g.allowPartialExecution
                               /\ g.requiredApprovers = 1
                               /\ g.approvalRoles = <<Prefix(2)>>}
    /\ policy = DefaultPolicy
    /\ approvals = <<>>
    /\ auditEvents = <<>>
    /\ lastCall = NoLastCall
    /\ calls = [c \in Callers |-> IdleCall]
    /\ dbVersion = 0
    /\ retryConfig = DefaultRetryConfig
    /\ actionExecutions = <<>>
    /\ clock = 0
    /\ RunAsStarted

NextGates ==
    \/ \E policies \in PolicyLists : EvaluatePolicyGatesCall(policies)
    \/ \E userId \in Users, decision \in Decisions :
          approvals # <<>> /\ ProcessApprovalDecision(Len(approvals), userId, decision)

SpecGates == InitGates /\ [][NextGates]_vars

\* ------------------------------------ a playbook run from trigger to end
FlagSeqs == {<<>>} \cup [1..NumActions -> BOOLEAN]

Playbooks ==
    {[enabled |-> e, rules |-> r, actions |-> ActionSpecs(flags)] :
        e \in BOOLEAN, r \in 0..1, flags \in FlagSeqs}

InitRun ==
    /\ gate \in {g \in Gates : /\ ~ g.allowPartialExecution
                               /\ g.requiredApprovers = 1
                               /\ g.approvalRoles = <<>>}
    /\ policy = DefaultPolicy
    /\ approvals = <<>>
    /\ auditEvents = <<>>
    /\ lastCall = NoLastCall
    /\ calls = [c \in Callers |-> IdleCall]
    /\ dbVersion = 0
    /\ retryConfig = [DefaultRetryConfig EXCEPT !.maxRetries = 0]
    /\ actionExecutions = <<>>
    /\ clock = 0
    /\ playbook \in Playbooks
    /\ playbookStored = [found |-> TRUE, enabled |-> playbook.enabled,
                         actions |-> playbook.actions]
    /\ status = "NONE"
    /\ stageNumber = 0
    /\ lastError = "NONE"
    /\ newExecutions = <<>>
    /\ lease = NoLease
    /\ acting = 0
    /\ escalation = NoEscalation
    /\ notifications = <<>>

NextRun ==
    \/ TriggerExecution
    \/ StartRun
    \/ ExecuteStage
    \/ \E i \in DOMAIN actionExecutions, userFindFails \in BOOLEAN :
          ExecuteAction(i, userFindFails)
    \/ \E ok \in BOOLEAN : HandlerAttempt(ok)
    \/ CompleteExecution
    \/ CancelExecution
    \/ AttemptCompensation
    \/ RetryExecution
    \/ \E enabled \in BOOLEAN : UpdatePlaybook(enabled)
    \/ DeletePlaybook

SpecRun == InitRun /\ [][NextRun]_vars

\* ------------------------------- a run driven by owners under the lease
InitResume ==
    /\ gate \in {g \in Gates : /\ ~ g.requiresApproval
                               /\ ~ g.allowPartialExecution
                               /\ g.requiredApprovers = 1
                               /\ g.approvalRoles = <<>>}
    /\ policy = DefaultPolicy
    /\ approvals = <<>>
    /\ auditEvents = <<>>
    /\ lastCall = NoLastCall
    /\ calls = [c \in Callers |-> IdleCall]
    /\ dbVersion = 0
    /\ retryConfig = [DefaultRetryConfig EXCEPT !.maxRetries = 0]
    /\ actionExecutions = <<>>
    /\ clock = 0
    /\ playbook = TwoStagePlaybook
    /\ playbookStored = [found |-> TRUE, enabled |-> TRUE,
                         actions |-> playbook.actions]
    /\ status = "NONE"
    /\ stageNumber = 0
    /\ lastError = "NONE"
    /\ newExecutions = <<>>
    /\ lease = NoLease
    /\ acting = 0
    /\ escalation = NoEscalation
    /\ notifications = <<>>

NextResume ==
    \/ TriggerExecution
    \/ \E o \in Owners : Resume(o)
    \/ RenewLease
    \/ \E o \in Owners : Wake(o)
    \/ Tick
    \/ Holds(acting) /\ StartRun
    \/ Holds(acting) /\ ExecuteStage
    \/ Holds(acting) /\ \E i \in DOMAIN actionExecutions : ExecuteAction(i, FALSE)
    \/ Holds(acting) /\ \E ok \in BOOLEAN : HandlerAttempt(ok)
    \/ Holds(acting) /\ CompleteExecution

SpecResume == InitResume /\ [][NextResume]_vars

\* --------------- a run whose playbook an administrator edits on the way
\* the execution has been created for the playbook as it was loaded
InitVersion ==
    /\ gate \in {g \in Gates : /\ ~ g.requiresApproval
                               /\ ~ g.allowPartialExecution
                               /\ g.requiredApprovers = 1
                               /\ g.approvalRoles = <<>>}
    /\ policy = DefaultPolicy
    /\ approvals = <<>>
    /\ auditEvents = ExecutionStatusEvent(<<>>, "INITIATED", 0)
    /\ lastCall = NoLastCall
    /\ calls = [c \in Callers |-> IdleCall]
    /\ dbVersion = 0
    /\ retryConfig = [DefaultRetryConfig EXCEPT !.maxRetries = 0]
    /\ actionExecutions = <<>>
    /\ clock = 0
    /\ playbook = TwoStagePlaybook
    /\ playbookStored = [found |-> TRUE, enabled |-> TRUE,
                         actions |-> playbook.actions]
    /\ status = "INITIATED"
    /\ stageNumber = 0
    /\ lastError = "NONE"
    /\ newExecutions = <<>>
    /\ lease = NoLease
    /\ acting = 0
    /\ escalation = NoEscalation
    /\ notifications = <<>>

NextVersion ==
    \/ \E flags \in [1..Len(playbook.actions) -> BOOLEAN] :
          UpdatePlaybookActions(ActionSpecs(flags))
    \/ \E o \in Owners : Resume(o)
    \/ Tick
    \/ Holds(acting) /\ StartRun
    \/ Holds(acting) /\ ExecuteStage
    \/ Holds(acting) /\ \E i \in DOMAIN actionExecutions : ExecuteAction(i, FALSE)
    \/ Holds(acting) /\ \E ok \in BOOLEAN : HandlerAttempt(ok)
    \/ Holds(acting) /\ CompleteExecution

SpecVersion == InitVersion /\ [][NextVersion]_vars

\* ------------------------------------ a run under its time ceiling
\* the run is started at time 0; each action it starts takes a unit of time
InitCeiling ==
    /\ gate \in {g \in Gates : /\ ~ g.requiresApproval
                               /\ ~ g.allowPartialExecution
                               /\ g.requiredApprovers = 1
                               /\ g.approvalRoles = <<>>}
    /\ policy = DefaultPolicy
    /\ approvals = <<>>
    /\ auditEvents = ExecutionStatusEvent(<<>>, "INITIATED", 0)
    /\ lastCall = NoLastCall
    /\ calls = [c \in Callers |-> IdleCall]
    /\ dbVersion = 0
    /\ retryConfig \in {[DefaultRetryConfig EXCEPT !.maxRetries = n] : n \in 0..1}
    /\ actionExecutions = <<>>
    /\ clock = 0
    /\ playbook \in {[enabled |-> TRUE, rules |-> 1,
                       actions |-> TwoStagePlaybook.actions,
                       maxExecutionTimeMs |-> m] : m \in 1..MaxTime}
    /\ playbookStored = [found |-> TRUE, enabled |-> TRUE,
                         actions |-> playbook.actions]
    /\ status = "INITIATED"
    /\ stageNumber = 0
    /\ lastError = "NONE"
    /\ newExecutions = <<>>
    /\ lease = NoLease
    /\ acting = 0
    /\ escalation = NoEscalation
    /\ notifications = <<>>

\* the engine looks at the ceiling before each step of the run
NextCeiling ==
    \/ StartRun
    \/ ~ CeilingExceeded /\ ExecuteStage
    \/ ~ CeilingExceeded /\ \E i \in DOMAIN actionExecutions : ExecuteAction(i, FALSE)
    \/ \E ok \in BOOLEAN : HandlerAttempt(ok)
    \/ ~ CeilingExceeded /\ CompleteExecution
    \/ ExecutionTimeout
    \/ AttemptCompensation

SpecCeiling == InitCeiling /\ [][NextCeiling]_vars

\* ------------------------------ a run with approvals, votes and a cancel
\* one action in each of two stages
OneByOnePlaybook ==
    [enabled |-> TRUE, rules |-> 1, actions |-> ActionSpecs(<<TRUE, FALSE, TRUE>>)]

InitCancel ==
    /\ gate \in {g \in Gates : /\ g.requiresApproval
                               /\ ~ g.allowPartialExecution
                               /\ g.requiredApprovers = 1
                               /\ g.approvalRoles = <<Prefix(2)>>}
    /\ policy = DefaultPolicy
    /\ approvals = <<>>
    /\ auditEvents = <<>>
    /\ lastCall = NoLastCall
    /\ calls = [c \in Callers |-> IdleCall]
    /\ dbVersion = 0
    /\ retryConfig = [DefaultRetryConfig EXCEPT !.maxRetries = 0]
    /\ actionExecutions = <<>>
    /\ clock = 0
    /\ playbook = OneByOnePlaybook
    /\ playbookStored = [found |-> TRUE, enabled |-> TRUE,
                         actions |-> playbook.actions]
    /\ status = "NONE"
    /\ stageNumber = 0
    /\ lastError = "NONE"
    /\ newExecutions = <<>>
    /\ lease = NoLease
    /\ acting = 0
    /\ escalation = NoEscalation
    /\ notifications = <<>>

NextCancel ==
    \/ TriggerExecution
    \/ StartRun
    \/ ExecuteStage
    \/ \E i \in DOMAIN actionExecutions : ExecuteAction(i, FALSE)
    \/ Vote
    \/ ApprovalResolved
    \/ \E ok \in BOOLEAN : HandlerAttempt(ok)
    \/ CompleteExecution
    \/ CancelExecution

SpecCancel == InitCancel /\ [][NextCancel]_vars

\* ------------------------- a request that waits while its timers run out
FallbackBehaviors == {"DENY_ACTION", "ALLOW_ACTION", "ESCALATE_TO_HUMAN"}

EscalationPaths ==
    UNION {[1..n -> [delayMs : 1..MaxDelay, escalateTo : {NoSuchUser, 1}]] :
              n \in 0..MaxLevels}

InitEscalation ==
    /\ gate \in {g \in Gates : /\ g.requiresApproval
                               /\ ~ g.allowPartialExecution
                               /\ g.requiredApprovers = 1
                               /\ g.approvalRoles = <<Prefix(2)>>}
    /\ policy \in {[DefaultPolicy EXCEPT !.fallbackBehavior = b] :
                      b \in FallbackBehaviors}
    /\ approvals = <<>>
    /\ auditEvents = <<>>
    /\ lastCall = NoLastCall
    /\ calls = [c \in Callers |-> IdleCall]
    /\ dbVersion = 0
    /\ retryConfig = [DefaultRetryConfig EXCEPT !.maxRetries = 0]
    /\ actionExecutions = <<>>
    /\ clock = 0
    /\ playbook = OneActionPlaybook
    /\ playbookStored = [found |-> TRUE, enabled |-> TRUE,
                         actions |-> playbook.actions]
    /\ status = "RUNNING"
    /\ stageNumber = 1
    /\ lastError = "NONE"
    /\ newExecutions = <<>>
    /\ lease = NoLease
    /\ acting = 0
    /\ escalation \in {[NoEscalation EXCEPT !.path = p] : p \in EscalationPaths}
    /\ notifications = <<>>

NextEscalation ==
    \/ actionExecutions = <<>> /\ Dispatch(FALSE)
    \/ Vote
    \/ ApprovalResolved
    \/ \E ok \in BOOLEAN : HandlerAttempt(ok)
    \/ \E a \in DOMAIN approvals, k \in DOMAIN escalation.path :
          EscalationTimer(a, k)

SpecEscalation == InitEscalation /\ [][NextEscalation]_vars

\* the event loop runs every timer that is due and every step of the engine
\* that can be taken; no approver is bound to vote
SpecEscalationFair ==
    /\ SpecEscalation
    /\ WF_vars(\E a \in DOMAIN approvals, k \in DOMAIN escalation.path :
                  EscalationTimer(a, k))
    /\ WF_vars(ApprovalResolved)
    /\ WF_vars(\E ok \in BOOLEAN : HandlerAttempt(ok))

\* ------------------------------- a run whose actions have compensations
CompensationKinds == {"NONE", "OPTIONAL", "MANDATORY"}

\* playbook p with a compensatingAction on the actions kinds says
WithCompensation(p, kinds) ==
    [p EXCEPT !.actions =
        [i \in DOMAIN p.actions |->
            [p.actions[i] EXCEPT
                !.compensatingAction = kinds[i] # "NONE",
                !.compensationMandatory = kinds[i] = "MANDATORY"]]]

CompensatedPlaybooks ==
    {WithCompensation(TwoStagePlaybook, kinds) :
        kinds \in [DOMAIN TwoStagePlaybook.actions -> CompensationKinds]}

InitCompensation ==
    /\ gate \in {g \in Gates : /\ ~ g.allowPartialExecution
                               /\ g.requiredApprovers = 1
                               /\ g.approvalRoles = <<>>}
    /\ policy = DefaultPolicy
    /\ approvals = <<>>
    /\ auditEvents = <<>>
    /\ lastCall = NoLastCall
    /\ calls = [c \in Callers |-> IdleCall]
    /\ dbVersion = 0
    /\ retryConfig \in {[DefaultRetryConfig EXCEPT !.maxRetries = n] : n \in 0..1}
    /\ actionExecutions = <<>>
    /\ clock = 0
    /\ playbook \in CompensatedPlaybooks
    /\ playbookStored = [found |-> TRUE, enabled |-> TRUE,
                         actions |-> playbook.actions]
    /\ status = "NONE"
    /\ stageNumber = 0
    /\ lastError = "NONE"
    /\ newExecutions = <<>>
    /\ lease = NoLease
    /\ acting = 0
    /\ escalation = NoEscalation
    /\ notifications = <<>>

NextCompensation ==
    \/ TriggerExecution
    \/ StartRun
    \/ ExecuteStage
    \/ \E i \in DOMAIN actionExecutions : ExecuteAction(i, FALSE)
    \/ \E ok \in BOOLEAN : HandlerAttempt(ok)
    \/ \E ok \in BOOLEAN : ExecuteCompensation(ok)
    \/ CompleteExecution

SpecCompensation == InitCompensation /\ [][NextCompensation]_vars

\* --------------- a stage of two concurrent actions behind an approval gate
TwoActionPlaybook ==
    [enabled |-> TRUE, rules |-> 1, actions |-> ActionSpecs(<<TRUE, TRUE>>)]

InitStage ==
    /\ gate \in {g \in Gates : /\ ~ g.allowPartialExecution
                               /\ g.requiredApprovers = 1
                               /\ g.approvalRoles = <<Prefix(2)>>}
    /\ policy = DefaultPolicy
    /\ approvals = <<>>
    /\ auditEvents = <<>>
    /\ lastCall = NoLastCall
    /\ calls = [c \in Callers |-> IdleCall]
    /\ dbVersion = 0
    /\ retryConfig = [DefaultRetryConfig EXCEPT !.maxRetries = 0]
    /\ actionExecutions = <<>>
    /\ clock = 0
    /\ playbook = TwoActionPlaybook
    /\ playbookStored = [found |-> TRUE, enabled |-> TRUE,
                         actions |-> playbook.actions]
    /\ status = "NONE"
    /\ stageNumber = 0
    /\ lastError = "NONE"
    /\ newExecutions = <<>>
    /\ lease = NoLease
    /\ acting = 0
    /\ escalation = NoEscalation
    /\ notifications = <<>>

NextStage ==
    \/ TriggerExecution
    \/ StartRun
    \/ ExecuteStage
    \/ \E i \in DOMAIN actionExecutions : ExecuteAction(i, FALSE)
    \/ Vote
    \/ ApprovalResolved
    \/ \E ok \in BOOLEAN : HandlerAttempt(ok)
    \/ CompleteExecution

SpecStage == InitStage /\ [][NextStage]_vars

\* ---------------- a run of a playbook with disabled and conditional actions
Conditions == {"NONE", "TRUE", "FALSE"}

\* playbook p with the conditions conds on its actions
WithConditions(p, conds) ==
    [p EXCEPT !.actions =
        [i \in DOMAIN p.actions |-> [p.actions[i] EXCEPT !.condition = conds[i]]]]

ConditionalPlaybooks ==
    {WithConditions([enabled |-> TRUE, rules |-> 1,
                     actions |-> ActionSpecs(flags)], conds) :
        flags \in [1..NumActions -> BOOLEAN],
        conds \in [1..NumActions -> Conditions]}

InitConditional ==
    /\ gate \in {g \in Gates : /\ ~ g.requiresApproval
                               /\ ~ g.allowPartialExecution
                               /\ g.requiredApprovers = 1
                               /\ g.approvalRoles = <<>>}
    /\ policy = DefaultPolicy
    /\ approvals = <<>>
    /\ auditEvents = ExecutionStatusEvent(<<>>, "INITIATED", 0)
    /\ lastCall = NoLastCall
    /\ calls = [c \in Callers |-> IdleCall]
    /\ dbVersion = 0
    /\ retryConfig = [DefaultRetryConfig EXCEPT !.maxRetries = 0]
    /\ actionExecutions = <<>>
    /\ clock = 0
    /\ playbook \in ConditionalPlaybooks
    /\ playbookStored = [found |-> TRUE, enabled |-> TRUE,
                         actions |-> playbook.actions]
    /\ status = "INITIATED"
    /\ stageNumber = 0
    /\ lastError = "NONE"
    /\ newExecutions = <<>>
    /\ lease = NoLease
    /\ acting = 0
    /\ escalation = NoEscalation
    /\ notifications = <<>>

NextConditional ==
    \/ StartRun
    \/ ExecuteStage
    \/ \E i \in DOMAIN actionExecutions : ExecuteAction(i, FALSE)
    \/ \E ok \in BOOLEAN : HandlerAttempt(ok)
    \/ CompleteExecution

SpecConditional == InitConditional /\ [][NextConditional]_vars

\* ------------------- a run with every way an action can change status
InitLifecycle ==
    /\ gate \in {g \in Gates : /\ ~ g.allowPartialExecution
                               /\ g.requiredApprovers = 1
                               /\ g.approvalRoles \in {<<>>, <<Prefix(1)>>}}
    /\ policy = DefaultPolicy
    /\ approvals = <<>>
    /\ auditEvents = <<>>
    /\ lastCall = NoLastCall
    /\ calls = [c \in Callers |-> IdleCall]
    /\ dbVersion = 0
    /\ retryConfig = [DefaultRetryConfig EXCEPT !.maxRetries = 0]
    /\ actionExecutions = <<>>
    /\ clock = 0
    /\ playbook \in {WithCompensation(OneByOnePlaybook, kinds) :
                         kinds \in [DOMAIN OneByOnePlaybook.actions ->
                                       {"NONE", "OPTIONAL"}]}
    /\ playbookStored = [found |-> TRUE, enabled |-> TRUE,
                         actions |-> playbook.actions]
    /\ status = "NONE"
    /\ stageNumber = 0
    /\ lastError = "NONE"
    /\ newExecutions = <<>>
    /\ lease = NoLease
    /\ acting = 0
    /\ escalation = NoEscalation
    /\ notifications = <<>>

NextLifecycle ==
    \/ TriggerExecution
    \/ StartRun
    \/ ExecuteStage
    \/ \E i \in DOMAIN actionExecutions : ExecuteAction(i, FALSE)
    \/ \E userId \in Users, decision \in Decisions :
          ProcessApprovalDecision(Len(approvals), userId, decision)
    \/ ApprovalResolved
    \/ \E ok \in BOOLEAN : HandlerAttempt(ok)
    \/ \E ok \in BOOLEAN : ExecuteCompensation(ok)
    \/ CompleteExecution
    \/ CancelExecution
    \/ AttemptCompensation

SpecLifecycle == InitLifecycle /\ [][NextLifecycle]_vars

\* ------------------------- a request whose notices may fail to be sent
InitNotify ==
    /\ gate \in {g \in Gates : /\ g.requiresApproval
                               /\ ~ g.allowPartialExecution
                               /\ g.requiredApprovers = 1
                               /\ g.approvalRoles \in {<<>>, <<Prefix(2)>>}}
    /\ policy = DefaultPolicy
    /\ approvals = <<>>
    /\ auditEvents = <<>>
    /\ lastCall = NoLastCall
    /\ calls = [c \in Callers |-> IdleCall]
    /\ dbVersion = 0
    /\ retryConfig = DefaultRetryConfig
    /\ actionExecutions = <<>>
    /\ clock = 0
    /\ playbook = OneActionPlaybook
    /\ playbookStored = [found |-> TRUE, enabled |-> TRUE,
                         actions |-> playbook.actions]
    /\ status = "RUNNING"
    /\ stageNumber = 1
    /\ lastError = "NONE"
    /\ newExecutions = <<>>
    /\ lease = NoLease
    /\ acting = 0
    /\ escalation \in {[NoEscalation EXCEPT !.path = p] :
                          p \in {q \in EscalationPaths : Len(q) <= 1}}
    /\ notifications = <<>>

NextNotify ==
    \/ \E notifyFails \in SUBSET Users : RequestApprovalFromGateCall(notifyFails)
    \/ Vote
    \/ \E a \in DOMAIN approvals, k \in DOMAIN escalation.path :
          EscalationTimer(a, k)

SpecNotify == InitNotify /\ [][NextNotify]_vars

\* ---------------- a whole run whose steps are taken whenever they can be
InitProgress ==
    /\ gate \in {g \in Gates : /\ ~ g.allowPartialExecution
                               /\ g.requiredApprovers = 1
                               /\ g.approvalRoles = <<Prefix(2)>>}
    /\ policy \in {[DefaultPolicy EXCEPT !.fallbackBehavior = b] :
                      b \in {"DENY_ACTION", "ALLOW_ACTION"}}
    /\ approvals = <<>>
    /\ auditEvents = <<>>
    /\ lastCall = NoLastCall
    /\ calls = [c \in Callers |-> IdleCall]
    /\ dbVersion = 0
    /\ retryConfig = [DefaultRetryConfig EXCEPT !.maxRetries = 0]
    /\ actionExecutions = <<>>
    /\ clock = 0
    /\ playbook = OneActionPlaybook
    /\ playbookStored = [found |-> TRUE, enabled |-> TRUE,
                         actions |-> playbook.actions]
    /\ status = "NONE"
    /\ stageNumber = 0
    /\ lastError = "NONE"
    /\ newExecutions = <<>>
    /\ lease = NoLease
    /\ acting = 0
    /\ escalation \in {[NoEscalation EXCEPT !.path = p] :
                          p \in {q \in EscalationPaths : Len(q) <= 1}}
    /\ notifications = <<>>

\* the steps the engine and the event loop take on their own
EngineStep ==
    \/ StartRun
    \/ ExecuteStage
    \/ \E i \in DOMAIN actionExecutions : ExecuteAction(i, FALSE)
    \/ ApprovalResolved
    \/ \E ok \in BOOLEAN : HandlerAttempt(ok)
    \/ CompleteExecution
    \/ \E a \in DOMAIN approvals, k \in DOMAIN escalation.path :
          EscalationTimer(a, k)

NextProgress ==
    \/ TriggerExecution
    \/ Vote
    \/ EngineStep

\* the engine goes on while it can and the timers run when due; whether and
\* when an approver votes is up to the approver
SpecProgress ==
    /\ InitProgress
    /\ [][NextProgress]_vars
    /\ WF_vars(EngineStep)

\* ------------------------------------------------------------ C1 .. C4
HasVote(r, userId) ==
    \/ userId \in {r.approvals[k].approvedBy : k \in DOMAIN r.approvals}
    \/ userId \in {r.denials[k].deniedBy : k \in DOMAIN r.denials}

ApproveVoters(r) == {r.approvals[k].approvedBy : k \in DOMAIN r.approvals}

\* C1: with no DENY recorded a request is PENDING while fewer than
\* requiredApprovers distinct approvers voted APPROVE and APPROVED from the
\* requiredApprovers-th on; APPROVED implies at least requiredApprovers
\* APPROVE votes and no DENY vote.
C1_QuorumStatus ==
    \A i \in DOMAIN approvals :
        LET r == approvals[i]
        IN  /\ Len(r.denials) = 0 =>
                  /\ Cardinality(ApproveVoters(r)) < r.requiredApprovers
                        => r.status = "PENDING"
                  /\ Cardinality(ApproveVoters(r)) >= r.requiredApprovers
                        => r.status = "APPROVED"
            /\ r.status = "APPROVED" =>
                  /\ Cardinality(ApproveVoters(r)) >= r.requiredApprovers
                  /\ Len(r.denials) = 0

\* requiredApprovers = 2: APPROVED with exactly two distinct APPROVE votes
C1_Witness ==
    \E i \in DOMAIN approvals :
        /\ approvals[i].requiredApprovers = 2
        /\ approvals[i].status = "APPROVED"
        /\ Cardinality(ApproveVoters(approvals[i])) = 2
        /\ lastCall.outcome = "OK"

\* C2: a recorded DENY makes the request DENIED in the same call, whatever
\* the APPROVE votes before it, and a DENIED request stays DENIED through
\* every later call.
C2_DenyIsFinal ==
    [][\A i \in DOMAIN approvals :
          /\ Len(approvals'[i].denials) > Len(approvals[i].denials)
                => approvals'[i].status = "DENIED"
          /\ approvals[i].status = "DENIED"
                => approvals'[i].status = "DENIED"]_vars

\* a DENIED request whose last accepted vote is an APPROVE that reached the
\* quorum: the APPROVE came after the DENY and did not change the status
C2_Witness ==
    \E i \in DOMAIN approvals :
        /\ approvals[i].status = "DENIED"
        /\ Len(approvals[i].approvals) >= approvals[i].requiredApprovers
        /\ lastCall.outcome = "OK"
        /\ lastCall.decision = "APPROVE"
        /\ lastCall.approvalId = approvals[i].approvalId

C4_NoDoubleVote ==
    /\ [](\A i \in DOMAIN approvals :
            /\ Cardinality(ApproveVoters(approvals[i])) = Len(approvals[i].approvals)
            /\ Cardinality({approvals[i].denials[k].deniedBy :
                               k \in DOMAIN approvals[i].denials})
                  = Len(approvals[i].denials)
            /\ \A k \in DOMAIN approvals[i].denials :
                  approvals[i].denials[k].deniedBy \notin ApproveVoters(approvals[i]))
    /\ [][(/\ lastCall'.seq # lastCall.seq
           /\ \E i \in DOMAIN approvals :
                 /\ approvals[i].approvalId = lastCall'.approvalId
                 /\ HasVote(approvals[i], lastCall'.userId))
          => /\ lastCall'.outcome = "ALREADY_VOTED"
             /\ lastCall'.unsavedEvent = "NONE"
             /\ approvals' = approvals
             /\ auditEvents' = auditEvents]_vars

\* a second call by an approver whose DENY is recorded was rejected
C4_Witness ==
    /\ lastCall.outcome = "ALREADY_VOTED"
    /\ \E i \in DOMAIN approvals :
          /\ approvals[i].approvalId = lastCall.approvalId
          /\ lastCall.userId \in {approvals[i].denials[k].deniedBy :
                                     k \in DOMAIN approvals[i].denials}

\* C5: when two calls on the same request have both ended, the votes of two
\* distinct approvers are both in the persisted request and its status is
\* the one both votes give; two calls by one approver record one vote.
C5_NoVoteLost ==
    \A c1, c2 \in Callers :
        (c1 # c2 /\ calls[c1].pc = "done" /\ calls[c2].pc = "done") =>
            LET r == approvals[1]
                u1 == calls[c1].userId
                u2 == calls[c2].userId
            IN  IF u1 # u2
                THEN /\ HasVote(r, u1)
                     /\ HasVote(r, u2)
                     /\ r.status = CompleteApproval(r).status
                ELSE Len(r.approvals) + Len(r.denials) <= 1

\* ----------------------------------------------------------- C6 .. C10
\* ActionExecution i enters EXECUTING in this step
EntersExecuting(i) ==
    /\ i \in DOMAIN actionExecutions'
    /\ actionExecutions'[i].status = "EXECUTING"
    /\ (i \in DOMAIN actionExecutions => actionExecutions[i].status # "EXECUTING")

RequestStatus(reqs, ae) ==
    IF ae.approvalId \in DOMAIN reqs THEN reqs[ae.approvalId].status ELSE "NONE"

\* C6: an action behind a gate that requires approval enters EXECUTING only
\* when its ApprovalRequest is APPROVED, or the gate passed by an exemption
\* or by auto-approval; never while the request is PENDING or DENIED.
C6_OnlyAfterApproval ==
    [][\A i \in DOMAIN actionExecutions' :
          (EntersExecuting(i) /\ gate.requiresApproval) =>
              \/ HasExceptionFor(policy)
              \/ CheckAutoApproval(policy)
              \/ RequestStatus(approvals', actionExecutions'[i]) = "APPROVED"]_vars

\* C6 as the code has it: such an action enters EXECUTING only when its
\* ApprovalRequest is APPROVED, or the gate passed by an exemption or by
\* auto-approval, or the request is PENDING and the gate sets
\* allowPartialExecution, or the evaluation of the gate threw and the
\* policy's fallbackBehavior is ALLOW_ACTION; never while the request is
\* DENIED, and never when the gate found no approver.
C6_OnlyAfterApprovalOrPartial ==
    [][\A i \in DOMAIN actionExecutions' :
          (EntersExecuting(i) /\ gate.requiresApproval) =>
              \/ HasExceptionFor(policy)
              \/ CheckAutoApproval(policy)
              \/ RequestStatus(approvals', actionExecutions'[i]) = "APPROVED"
              \/ /\ RequestStatus(approvals', actionExecutions'[i]) = "PENDING"
                 /\ gate.allowPartialExecution
              \/ /\ actionExecutions'[i].approvalId = 0
                 /\ actionExecutions'[i].gateReason = "Allowed due to system error (fallback)"
                 /\ policy.fallbackBehavior = "ALLOW_ACTION"]_vars

\* the dispatch waited on a PENDING request, the quorum was reached, and the
\* action is in EXECUTING with no attempt made yet
C6_Witness ==
    \E i \in DOMAIN actionExecutions :
        /\ gate.requiresApproval
        /\ ~ gate.allowPartialExecution
        /\ actionExecutions[i].status = "EXECUTING"
        /\ actionExecutions[i].approvalOutcome = "APPROVED"
        /\ actionExecutions[i].handlerCalls = 0
        /\ RequestStatus(approvals, actionExecutions[i]) = "APPROVED"

\* the evaluation of the gate ended in its catch block
GateErrored(ae) ==
    ae.gateReason \in {"System error", "Allowed due to system error (fallback)",
                       "System error requiring escalation"}

EndedDenied(ae) ==
    /\ ae.status = "FAILED"
    /\ ae.error = "APPROVAL_DENIED"
    /\ ae.handlerCalls = 0
    /\ ae.retryDetails = <<>>
    /\ ae.retryCount = 0

C8_NoSecondInvocation ==
    \A i, j \in DOMAIN actionExecutions :
        ( /\ i < j
          /\ actionExecutions[i].actionId = actionExecutions[j].actionId
          /\ actionExecutions[i].status = "SUCCESS" )
        => /\ actionExecutions[j].handlerCalls = 0
           /\ actionExecutions[i].isIdempotentRetry

\* C9: the idempotency key depends on the execution and the action alone:
\* two ActionExecutions of one action in one execution carry one key.
C9_KeyDeterministic ==
    \A i, j \in DOMAIN actionExecutions :
        actionExecutions[i].actionId = actionExecutions[j].actionId
        => actionExecutions[i].idempotencyKey = actionExecutions[j].idempotencyKey

RecordedDelays(ae) ==
    [k \in 1..(Len(ae.retryDetails) - 1) |-> ae.retryDetails[k + 1].backoffDelayMs]

\* C10: attempt 1 records no delay and attempt k >= 2 records the delay
\* backoffMs * backoffMultiplier^(k-2); never more than maxRetries + 1
\* attempts; with the defaults (3, 1000, 2) and a handler that fails every
\* time the recorded delays are exactly 1000, 2000, 4000.
C10_ExponentialBackoff ==
    \A i \in DOMAIN actionExecutions :
        LET ae == actionExecutions[i]
            rd == ae.retryDetails
        IN  /\ Len(rd) <= retryConfig.maxRetries + 1
            /\ \A k \in DOMAIN rd :
                  /\ rd[k].attemptNumber = k
                  /\ k = 1 => rd[k].backoffDelayMs = 0
                  /\ k = 2 => rd[k].backoffDelayMs = retryConfig.backoffMs
                  /\ k > 2 => rd[k].backoffDelayMs =
                                 rd[k - 1].backoffDelayMs * retryConfig.backoffMultiplier
            /\ ( /\ retryConfig = DefaultRetryConfig
                 /\ ae.status = "FAILED"
                 /\ ae.error = "RETRIES_EXHAUSTED" )
               => RecordedDelays(ae) = <<1000, 2000, 4000>>

\* the defaults, every attempt failed, the retries are used up
C10_Witness ==
    \E i \in DOMAIN actionExecutions :
        /\ retryConfig = DefaultRetryConfig
        /\ actionExecutions[i].status = "FAILED"
        /\ actionExecutions[i].error = "RETRIES_EXHAUSTED"
        /\ Len(actionExecutions[i].retryDetails) = 4
        /\ \A k \in 1..4 : ~ actionExecutions[i].retryDetails[k].ok

\* ---------------------------------------------------------- C11 .. C20
AllFailed(rd) == \A k \in DOMAIN rd : ~ rd[k].ok

\* C11: one dispatch invokes the handler at most maxRetries + 1 times, each
\* invocation is one retry record of its own, the loop ends at the first
\* attempt that succeeds with SUCCESS, goes on only after failures, and
\* ends FAILED when all maxRetries + 1 attempts failed.
C11_RetryLoopBounded ==
    \A i \in DOMAIN actionExecutions :
        LET ae == actionExecutions[i]
            rd == ae.retryDetails
        IN  /\ ae.handlerCalls <= retryConfig.maxRetries + 1
            /\ Len(rd) = ae.handlerCalls
            /\ \A k \in DOMAIN rd : rd[k].attemptNumber = k
            /\ ae.status = "SUCCESS" =>
                  /\ Len(rd) >= 1
                  /\ rd[Len(rd)].ok
                  /\ \A k \in 1..(Len(rd) - 1) : ~ rd[k].ok
            /\ ae.status = "EXECUTING" =>
                  /\ AllFailed(rd)
                  /\ ae.handlerCalls <= retryConfig.maxRetries
            /\ (ae.status = "FAILED" /\ ae.gateStatus = "PASSED") =>
                  /\ AllFailed(rd)
                  /\ ae.handlerCalls = retryConfig.maxRetries + 1
            /\ (AllFailed(rd) /\ ae.handlerCalls = retryConfig.maxRetries + 1)
                  => ae.status = "FAILED"

\* every attempt failed and the retries are used up, with two retries or more
C11_Witness ==
    \E i \in DOMAIN actionExecutions :
        /\ retryConfig.maxRetries >= 2
        /\ actionExecutions[i].status = "FAILED"
        /\ actionExecutions[i].handlerCalls = retryConfig.maxRetries + 1
        /\ Len(actionExecutions[i].retryDetails) = retryConfig.maxRetries + 1

\* the stage of the action an ActionExecution belongs to
StageOfExecution(ae) == playbook.actions[ae.actionId].stage

\* ActionExecution j leaves PENDING in this step
LeavesPending(j) ==
    /\ j \in DOMAIN actionExecutions
    /\ j \in DOMAIN actionExecutions'
    /\ actionExecutions[j].status = "PENDING"
    /\ actionExecutions'[j].status # "PENDING"

\* C12: an action of a later stage is dispatched, and leaves PENDING, only
\* when every dispatched action of every earlier stage has a terminal
\* status, whatever the order in which the actions of a stage run.
C12_StageBarrier ==
    /\ [](\A i, j \in DOMAIN actionExecutions :
             StageOfExecution(actionExecutions[i]) < StageOfExecution(actionExecutions[j])
             => Terminal(actionExecutions[i]))
    /\ [][\A j \in DOMAIN actionExecutions :
             LeavesPending(j) =>
                \A i \in DOMAIN actionExecutions :
                    StageOfExecution(actionExecutions[i])
                        < StageOfExecution(actionExecutions[j])
                    => Terminal(actionExecutions[i])]_vars

\* two actions of stage 1 have ended, one well and one badly, and an action
\* of stage 2 runs
C12_Witness ==
    \E i, j, k \in DOMAIN actionExecutions :
        /\ i # j
        /\ StageOfExecution(actionExecutions[i]) = 1
        /\ StageOfExecution(actionExecutions[j]) = 1
        /\ StageOfExecution(actionExecutions[k]) = 2
        /\ actionExecutions[i].status = "SUCCESS"
        /\ actionExecutions[j].status = "FAILED"
        /\ actionExecutions[k].status = "EXECUTING"

\* the statuses of the current ActionExecutions
Outcomes == [i \in DOMAIN actionExecutions |-> actionExecutions[i].status]

\* the final status the spec gives for the current ActionExecutions
ExpectedFinalStatus ==
    IF \A i \in DOMAIN Outcomes : Outcomes[i] # "SUCCESS" THEN "FAILED"
    ELSE IF \A i \in DOMAIN Outcomes : Outcomes[i] = "SUCCESS" THEN "COMPLETED"
    ELSE "PARTIALLY_COMPLETED"

\* C13: the final status computed from the ActionExecutions is FAILED when
\* none is SUCCESS (an execution without ActionExecutions included),
\* COMPLETED when there is one and every one is SUCCESS, and
\* PARTIALLY_COMPLETED otherwise; the step that ends a run on its own
\* gives the execution that status
C13_FinalStatus ==
    /\ [](CalculateExecutionStatus(actionExecutions) = ExpectedFinalStatus)
    /\ [][CompleteExecution => status' = ExpectedFinalStatus]_vars

\* C13: a run has ended PARTIALLY_COMPLETED on [SUCCESS, FAILED, SUCCESS]
C13_Witness ==
    /\ status = "PARTIALLY_COMPLETED"
    /\ Outcomes = <<"SUCCESS", "FAILED", "SUCCESS">>

\* the place of a status on the path of an execution; NONE is the time
\* before the execution exists
StatusRank(s) ==
    CASE s = "NONE" -> 0
      [] s = "INITIATED" -> 1
      [] s = "RUNNING" -> 2
      [] s \in {"PARTIALLY_COMPLETED", "COMPLETED", "FAILED"} -> 3
      [] s = "ROLLED_BACK" -> 4

RetryOfEnded == RetryExecution /\ status \notin {"NONE", "RUNNING"}

\* the step leaves the execution it was asked about as it was
OriginalUnchanged == UNCHANGED <<status, actionExecutions, approvals, auditEvents>>

\* the step creates one execution, under an id no execution has yet
CreatesNewExecution ==
    /\ Len(newExecutions') = Len(newExecutions) + 1
    /\ SubSeq(newExecutions', 1, Len(newExecutions)) = newExecutions
    /\ LET new == newExecutions'[Len(newExecutions')]
       IN  /\ new.executionId # OriginalExecutionId
           /\ \A k \in DOMAIN newExecutions :
                 new.executionId # newExecutions[k].executionId

\* C15 as stated: a retry of an existing execution that is not RUNNING
\* creates a new execution with a different id and leaves the original's
\* status, ActionExecutions, approvals and audit events unchanged
C15_RetryAlwaysCreates ==
    [][RetryOfEnded => CreatesNewExecution /\ OriginalUnchanged]_vars

\* C15, amended: the retry creates the new execution when the playbook of
\* the original is still stored and can execute; when the playbook was
\* deleted or cannot execute the retry fails and creates nothing; in both
\* cases the original execution is unchanged
C15_RetryCreatesOrFails ==
    [][RetryOfEnded =>
         /\ OriginalUnchanged
         /\ IF playbookStored.found /\ CanExecute(StoredPlaybook)
            THEN CreatesNewExecution /\ lastError' = "NONE"
            ELSE /\ newExecutions' = newExecutions
                 /\ lastError' \in {"Playbook not found", "InvalidPlaybookError"}]_vars

\* C15: a retry of a run that ended with ActionExecutions has created a
\* new execution, and the original still has its status and its actions
C15_Witness ==
    /\ Len(newExecutions) = 1
    /\ newExecutions[1].executionId # OriginalExecutionId
    /\ status \in {"PARTIALLY_COMPLETED", "COMPLETED", "FAILED"}
    /\ actionExecutions # <<>>
    /\ lastError = "NONE"

\* the stored playbook is disabled, or has no rule, or has no action
Incomplete(p) == ~ p.enabled \/ p.rules = 0 \/ Len(p.actions) = 0

\* C16: starting a run on a stored playbook that is disabled, or has no
\* rule, or has no action fails at once with InvalidPlaybookError: no
\* execution is created, no ActionExecution and so no handler attempt
\* appears, and no audit event is written; as long as no execution exists
\* there is neither an action nor an event
C16_InvalidPlaybookRefused ==
    /\ [](status = "NONE" => actionExecutions = <<>> /\ auditEvents = <<>>)
    /\ [][(TriggerExecution /\ playbookStored.found /\ Incomplete(StoredPlaybook))
            => /\ lastError' = "InvalidPlaybookError"
               /\ status' = "NONE"
               /\ UNCHANGED <<actionExecutions, approvals, auditEvents,
                              newExecutions>>]_vars

\* C16: the start of an enabled playbook with actions and no rule has
\* been refused
C16_Witness ==
    /\ lastError = "InvalidPlaybookError"
    /\ status = "NONE"
    /\ StoredPlaybook.enabled
    /\ Len(playbook.actions) > 0
    /\ playbook.rules = 0
    /\ auditEvents = <<>>

\* log b is log a with exactly one event appended at its end
AppendsOne(a, b) == Len(b) = Len(a) + 1 /\ SubSeq(b, 1, Len(a)) = a

\* C17: the audit log is append-only and insertion-ordered: no step makes
\* it shorter, every event in it keeps its position, kind, actor and
\* detail, and a step that writes appends exactly one event at the end;
\* addAuditEvent on the log of any reachable state appends exactly one
\* event, with actor SYSTEM when no actor is given and with the given
\* actor otherwise
C17_AuditAppendOnly ==
    /\ [](LET bySystem == AddAuditEvent(auditEvents, "TEST_EVENT", <<>>, Undefined, clock)
              byAdmin == AddAuditEvent(auditEvents, "TEST_EVENT", <<>>, "admin", clock)
          IN  /\ AppendsOne(auditEvents, bySystem)
              /\ bySystem[Len(bySystem)].actor = "SYSTEM"
              /\ bySystem[Len(bySystem)].event = "TEST_EVENT"
              /\ AppendsOne(auditEvents, byAdmin)
              /\ byAdmin[Len(byAdmin)].actor = "admin")
    /\ [][\/ auditEvents' = auditEvents
          \/ /\ AppendsOne(auditEvents, auditEvents')
             /\ auditEvents'[Len(auditEvents')].actor = "SYSTEM"]_vars

\* C17: a log of a whole run: the events of two actions between the
\* events of the start and of the end of the run, in the order written
C17_Witness ==
    /\ Len(auditEvents) >= 5
    /\ auditEvents[1].details = <<"INITIATED">>
    /\ auditEvents[2].details = <<"RUNNING">>
    /\ auditEvents[3].event = "ACTION_STATUS"
    /\ auditEvents[Len(auditEvents)].event = "PLAYBOOK_STATUS"
    /\ \A i \in DOMAIN auditEvents : auditEvents[i].actor = "SYSTEM"
    /\ \A i, j \in DOMAIN auditEvents :
          i < j => auditEvents[i].timestamp <= auditEvents[j].timestamp

\* the step changes the status of the execution, of an ActionExecution or
\* of an ApprovalRequest that was stored before it
StatusTransition ==
    \/ status' # status
    \/ \E i \in DOMAIN actionExecutions \cap DOMAIN actionExecutions' :
          actionExecutions'[i].status # actionExecutions[i].status
    \/ \E i \in DOMAIN approvals \cap DOMAIN approvals' :
          approvals'[i].status # approvals[i].status

\* C18 as stated: every step that changes the status of the execution, of
\* an ActionExecution or of an ApprovalRequest appends an audit event with
\* actor SYSTEM to the stored log of the execution
C18_EveryTransitionAudited ==
    [][StatusTransition =>
         /\ Len(auditEvents') > Len(auditEvents)
         /\ auditEvents'[Len(auditEvents')].actor = "SYSTEM"]_vars

\* ----------------------------------------------------------- C19 .. C20
\* the ids of the enabled actions of the playbook, in stage order
EnabledActionIds ==
    LET sel == SelectSeq(playbook.actions, LAMBDA action : action.enabled)
    IN  [k \in DOMAIN sel |-> sel[k].actionId]

\* the run has ended on its own with the result an uninterrupted run of
\* the playbook gives: every enabled action dispatched exactly once, in
\* stage order, each ended SUCCESS or FAILED, and the final status theirs
UninterruptedResult ==
    /\ [i \in DOMAIN actionExecutions |-> actionExecutions[i].actionId]
          = EnabledActionIds
    /\ \A i \in DOMAIN actionExecutions :
          /\ actionExecutions[i].status \in {"SUCCESS", "FAILED"}
          /\ actionExecutions[i].handlerCalls = 1
    /\ status = ExpectedFinalStatus

\* C19: a resumed run drives only the actions that were not terminal in
\* the persisted execution: an ActionExecution the resuming owner found
\* terminal keeps that status, no step changes an ActionExecution that is
\* terminal (one recorded SUCCESS gets no further handler call), no
\* action gets a second ActionExecution, and a run that ends, resumed or
\* not, ends with the result of an uninterrupted run
C19_ResumeDrivesRemainder ==
    /\ [](/\ \A i \in DOMAIN lease.loaded :
               lease.loaded[i] \in {"SUCCESS", "FAILED", "SKIPPED"}
                  => actionExecutions[i].status = lease.loaded[i]
          /\ \A i, j \in DOMAIN actionExecutions :
               i # j => actionExecutions[i].actionId # actionExecutions[j].actionId
          /\ status \in {"PARTIALLY_COMPLETED", "COMPLETED", "FAILED"}
               => UninterruptedResult)
    /\ [][\A i \in DOMAIN actionExecutions :
            Terminal(actionExecutions[i])
               => /\ i \in DOMAIN actionExecutions'
                  /\ actionExecutions'[i] = actionExecutions[i]]_vars

\* C19: the first owner ended stage 1 with a SUCCESS and a FAILED and
\* stopped before stage 2; a second owner resumed the run from that
\* persisted execution and ended it
C19_Witness ==
    /\ lease.epoch = 2
    /\ lease.owner = 2
    /\ lease.loaded = <<"SUCCESS", "FAILED">>
    /\ Len(actionExecutions) = 3
    /\ actionExecutions[3].status = "SUCCESS"
    /\ status = "PARTIALLY_COMPLETED"

\* the step changes the persisted execution (its creation is no change)
ExecutionMutated ==
    /\ status # "NONE"
    /\ <<status, actionExecutions, approvals, auditEvents>>' #
          <<status, actionExecutions, approvals, auditEvents>>

\* C20: one owner at a time drives an execution: the lease passes to an
\* owner only when nobody holds it or its timeout has elapsed since it was
\* taken or last renewed, only the owner holding it unexpired extends it,
\* and every step that changes the execution is taken by the owner that
\* holds the unexpired lease
C20_SingleOwner ==
    [][/\ (lease'.epoch # lease.epoch /\ lease.owner # 0)
            => clock >= lease.expiresAt
       /\ (lease'.epoch = lease.epoch /\ lease' # lease)
            => /\ lease.owner = acting /\ clock < lease.expiresAt
               /\ lease'.owner = lease.owner
       /\ ExecutionMutated
            => acting # 0 /\ lease.owner = acting /\ clock < lease.expiresAt]_vars

\* C20: the process of owner 1 runs while owner 2, who took the lease
\* over after its timeout, holds it unexpired and the run is not over
C20_Witness ==
    /\ lease.epoch = 2
    /\ lease.owner = 2
    /\ clock < lease.expiresAt
    /\ acting = 1
    /\ status = "RUNNING"
    /\ \E i \in DOMAIN actionExecutions : actionExecutions[i].status = "EXECUTING"

\* ----------------------------------------------------------- C21 .. C30
\* the request holds the denial cancelExecution records
DeniedByCancel(r) ==
    /\ r.status = "DENIED"
    /\ \E k \in DOMAIN r.denials : r.denials[k].deniedBy = ExecutionCancelled

\* the step starts an action: a new ActionExecution, an ActionExecution
\* entering EXECUTING, or a handler call
StartsAction ==
    \/ Len(actionExecutions') > Len(actionExecutions)
    \/ \E i \in DOMAIN actionExecutions \cap DOMAIN actionExecutions' :
          \/ /\ actionExecutions'[i].status = "EXECUTING"
             /\ actionExecutions[i].status # "EXECUTING"
          \/ actionExecutions'[i].handlerCalls > actionExecutions[i].handlerCalls

\* C21: cancelExecution on an execution that has not ended moves it to
\* FAILED and marks every request still PENDING as DENIED with the reason
\* EXECUTION_CANCELLED; from then on the execution stays FAILED, the
\* requests it denied stay DENIED whatever is voted later, and no action
\* of the execution is started
C21_CancelStopsRun ==
    /\ [][CancelExecution =>
            /\ status' = "FAILED"
            /\ \A i \in DOMAIN approvals :
                  approvals[i].status = "PENDING" => DeniedByCancel(approvals'[i])]_vars
    /\ [][status = "FAILED" =>
            /\ status' = "FAILED"
            /\ ~ StartsAction
            /\ \A i \in DOMAIN approvals :
                  DeniedByCancel(approvals[i]) => DeniedByCancel(approvals'[i])]_vars

\* C21: a run cancelled while its first action waited for approval: the
\* request is DENIED by the cancel, an approver has voted APPROVE since,
\* and the action has ended FAILED without a handler call
C21_Witness ==
    /\ status = "FAILED"
    /\ Len(approvals) = 1
    /\ DeniedByCancel(approvals[1])
    /\ approvals[1].approvals # <<>>
    /\ Len(actionExecutions) = 1
    /\ actionExecutions[1].error = "EXECUTION_CANCELLED"
    /\ actionExecutions[1].handlerCalls = 0

\* ------------------------------------------------------------------ C22
\* the actions that wait on request a
WaitingOn(a) ==
    {i \in DOMAIN actionExecutions :
        /\ actionExecutions[i].status = "APPROVAL_PENDING"
        /\ actionExecutions[i].approvalId = a}

\* the timer of level k of request a runs in this step
Elapses(a, k) ==
    <<a, k>> \in escalation'.fired /\ <<a, k>> \notin escalation.fired

\* C22: an unresolved request is escalated through gate.escalationPath one
\* level at a time in path order, the timer of a level running only after
\* the timers of the levels before it; and when the last level elapses with
\* the request still PENDING the fallbackBehavior of the policy is applied to
\* the action that waits: DENY_ACTION makes it FAILED (APPROVAL_DENIED),
\* ALLOW_ACTION makes it execute.
C22_EscalationThenFallback ==
    [][\A a \in DOMAIN approvals :
         /\ \A k \in DOMAIN escalation.path :
               Elapses(a, k) => \A j \in 1..(k - 1) : <<a, j>> \in escalation.fired
         /\ ( /\ Elapses(a, Len(escalation.path))
              /\ approvals[a].status = "PENDING" )
            => \A i \in WaitingOn(a) :
                 /\ policy.fallbackBehavior = "DENY_ACTION"
                      => /\ actionExecutions'[i].status = "FAILED"
                         /\ actionExecutions'[i].error = "APPROVAL_DENIED"
                 /\ policy.fallbackBehavior = "ALLOW_ACTION"
                      => actionExecutions'[i].status = "EXECUTING"]_vars

\* ------------------------------------------------------------------ C23
\* C23: waiting on an ApprovalRequest is never indefinite: under a policy
\* with fallbackBehavior DENY_ACTION or ALLOW_ACTION and with timers that
\* run when they are due, an action in APPROVAL_PENDING eventually leaves
\* that status, whether or not an approver votes.
C23_WaitNeverIndefinite ==
    \A i \in 1..MaxDispatches :
        ( /\ policy.fallbackBehavior \in {"DENY_ACTION", "ALLOW_ACTION"}
          /\ i \in DOMAIN actionExecutions
          /\ actionExecutions[i].status = "APPROVAL_PENDING" )
        ~> ( /\ i \in DOMAIN actionExecutions
             /\ actionExecutions[i].status \in
                   {"EXECUTING", "SUCCESS", "FAILED"} )

\* ------------------------------------------------------------------ C24
\* C24: forward progress: an execution that was started eventually reaches
\* PARTIALLY_COMPLETED, COMPLETED, FAILED or ROLLED_BACK.
C24_ForwardProgress ==
    (status \in {"INITIATED", "RUNNING"})
        ~> (status \in {"PARTIALLY_COMPLETED", "COMPLETED", "FAILED",
                        "ROLLED_BACK"})

\* ------------------------------------------------------------------ C25
\* the compensation of ActionExecution i is dispatched in this step
CompensationDispatched(i) ==
    /\ i \in DOMAIN actionExecutions
    /\ actionExecutions'[i].compensation.dispatches
          > actionExecutions[i].compensation.dispatches

\* the action ended FAILED after its retries and has a compensatingAction
FailedWithCompensation(ae) ==
    /\ ae.status = "FAILED"
    /\ ae.error = "RETRIES_EXHAUSTED"
    /\ ae.compensation.required

MandatoryCompensationFailed ==
    \E i \in DOMAIN actionExecutions :
        /\ actionExecutions[i].compensation.mandatory
        /\ actionExecutions[i].compensation.status = "FAILED"

\* every action dispatched so far has ended, its compensation included
StageHasEnded ==
    \A i \in DOMAIN actionExecutions :
        /\ actionExecutions[i].status \in {"SUCCESS", "FAILED", "SKIPPED"}
        /\ actionExecutions[i].compensation.status # "PENDING"
             \/ actionExecutions[i].status # "FAILED"
             \/ actionExecutions[i].error # "RETRIES_EXHAUSTED"

\* C26: a failed action does not stop the run: once a stage has resolved
\* the engine can start the next one, up to the highest stage present,
\* whatever failed; a run ends before its highest stage only when a
\* compensation marked mandatory has failed, and then no further stage
\* starts.
C26_FailureDoesNotStopRun ==
    /\ []( ( /\ status = "RUNNING"
             /\ stageNumber < HighestStage(playbook)
             /\ StageHasEnded
             /\ ~ MandatoryCompensationFailed )
           => ENABLED ExecuteStage )
    /\ []( ( /\ status \in {"PARTIALLY_COMPLETED", "COMPLETED", "FAILED"}
             /\ stageNumber < HighestStage(playbook) )
           => MandatoryCompensationFailed )
    /\ [][MandatoryCompensationFailed => stageNumber' = stageNumber]_vars

\* an action of stage 1 failed, its optional compensation failed too, and
\* stage 2 has run
C26_Witness ==
    /\ status = "PARTIALLY_COMPLETED"
    /\ stageNumber = 2
    /\ \E i, j \in DOMAIN actionExecutions :
          /\ StageOfExecution(actionExecutions[i]) = 1
          /\ actionExecutions[i].status = "FAILED"
          /\ actionExecutions[i].compensation.status = "FAILED"
          /\ StageOfExecution(actionExecutions[j]) = 2
          /\ actionExecutions[j].status = "SUCCESS"

\* ------------------------------------------------------------------ C27
\* the statuses the audit log holds for action a, in the order of the log
StatusLog(a) ==
    LET es == SelectSeq(auditEvents,
                  LAMBDA e : e.event = "ACTION_STATUS" /\ e.details[1] = a)
    IN  [k \in DOMAIN es |-> es[k].details[2]]

\* the end of an action by the outcomes of its handler
EndByHandler(ae) ==
    IF ae.retryDetails # <<>> /\ ae.retryDetails[Len(ae.retryDetails)].ok
    THEN "SUCCESS"
    ELSE "FAILED"

\* the statuses an action goes through, as the inputs of the run fix them:
\* the gate of the playbook, the decisions cast on the request of the
\* action, the outcomes of its handler
StatusesByInputs(ae) ==
    IF ~ gate.requiresApproval
    THEN <<"EXECUTING", EndByHandler(ae)>>
    ELSE IF approvals[ae.approvalId].denials # <<>>
    THEN <<"APPROVAL_PENDING", "FAILED">>
    ELSE <<"APPROVAL_PENDING", "EXECUTING", EndByHandler(ae)>>

\* the status of the run by the ends of its actions
EndByInputs ==
    LET ends == [i \in DOMAIN actionExecutions |->
                    LET ss == StatusesByInputs(actionExecutions[i])
                    IN  ss[Len(ss)]]
    IN  IF \A i \in DOMAIN ends : ends[i] # "SUCCESS" THEN "FAILED"
        ELSE IF \A i \in DOMAIN ends : ends[i] = "SUCCESS" THEN "COMPLETED"
        ELSE "PARTIALLY_COMPLETED"

\* C27: determinism: the playbook, the handler outcomes and the approval
\* decisions of a run fix the statuses every action goes through and the
\* status the run ends in, whatever the order in which the steps of the
\* concurrent actions of a stage are taken: in a run that has ended, every
\* enabled action has one ActionExecution whose logged statuses are those
\* its inputs give, and the run has the status they give.
C27_Deterministic ==
    [](status \in {"PARTIALLY_COMPLETED", "COMPLETED", "FAILED"} =>
          /\ Len(actionExecutions) = Len(playbook.actions)
          /\ \A a \in DOMAIN playbook.actions :
                \E i \in DOMAIN actionExecutions : actionExecutions[i].actionId = a
          /\ \A i \in DOMAIN actionExecutions :
                StatusLog(actionExecutions[i].actionId)
                    = StatusesByInputs(actionExecutions[i])
          /\ status = EndByInputs)

\* ------------------------------------------------------------------ C28
\* the gate of a new ActionExecution has been evaluated in this step
GateEvaluated == Len(actionExecutions') > Len(actionExecutions)

\* an enabled exception of the policy exempts the target of the incident
TargetExempt ==
    \E k \in DOMAIN policy.exceptions :
        policy.exceptions[k].enabled /\ policy.exceptions[k].exemptsTarget

\* an auto-approval condition of the policy holds and approves
AutoApprovalHolds ==
    \E k \in DOMAIN policy.autoApprovalConditions :
        /\ policy.autoApprovalConditions[k].holds
        /\ policy.autoApprovalConditions[k].autoApprove

NoApprovers ==
    /\ gate.requiresApproval
    /\ ~ TargetExempt /\ ~ AutoApprovalHolds
    /\ GetApproversForGate(gate) = <<>>

\* C29: when no approver can be resolved the gate's answer is a denial: no
\* ApprovalRequest is attached to the execution; an action that leaves
\* PENDING ends FAILED (APPROVAL_DENIED, no approvers available) in that
\* step, its handler and its compensation never run; the execution stays
\* RUNNING, and it ends only after every stage has been started and every
\* enabled action dispatched.
C29_NoApproversDenies ==
    /\ [](NoApprovers =>
            /\ approvals = <<>>
            /\ \A i \in DOMAIN actionExecutions :
                  LET ae == actionExecutions[i]
                  IN  /\ ae.handlerCalls = 0
                      /\ ae.compensation.dispatches = 0
                      /\ ae.status \in {"PENDING", "FAILED"}
                      /\ ae.status = "FAILED" =>
                            /\ ae.error = "APPROVAL_DENIED"
                            /\ ae.gateReason = "Approval denied: No approvers available"
            /\ status \in {"PARTIALLY_COMPLETED", "COMPLETED", "FAILED"} =>
                  /\ stageNumber = HighestStage(playbook)
                  /\ Len(actionExecutions) = Len(playbook.actions))
    /\ [][\A i \in DOMAIN actionExecutions :
            (NoApprovers /\ LeavesPending(i)) =>
                /\ actionExecutions'[i].status = "FAILED"
                /\ status' = "RUNNING"
                /\ \A j \in DOMAIN actionExecutions \ {i} :
                      actionExecutions'[j] = actionExecutions[j]]_vars

\* without approvers the three actions of both stages were dispatched and
\* denied, and the run ended
C29_Witness ==
    /\ NoApprovers
    /\ status = "FAILED"
    /\ stageNumber = 2
    /\ Len(actionExecutions) = 3
    /\ \A i \in DOMAIN actionExecutions :
          actionExecutions[i].error = "APPROVAL_DENIED"

\* ------------------------------------------------------------------ C30
\* the answer of the gate when the lookup of the approvers throws
GateResultOnError == EvaluateGate(gate, policy, approvals, TRUE)

\* the evaluation of the gate gets as far as the lookup of the approvers
ReachesLookup ==
    gate.requiresApproval /\ ~ TargetExempt /\ ~ AutoApprovalHolds

FallbackReasons ==
    {"System error", "Allowed due to system error (fallback)",
     "System error requiring escalation"}

\* the gate status the claim gives for each fallbackBehavior
StatusByFallback ==
    CASE policy.fallbackBehavior = "DENY_ACTION" -> "FAILED"
      [] policy.fallbackBehavior = "ALLOW_ACTION" -> "PASSED"
      [] policy.fallbackBehavior = "ESCALATE_TO_HUMAN" -> "ESCALATION_REQUIRED"

NoticeFailed(a, u) ==
    \E i \in DOMAIN notifications :
        notifications[i] = [approvalId |-> a, userId |-> u, delivered |-> FALSE]

NoticeDelivered(log, a, u) ==
    \E i \in DOMAIN log :
        log[i] = [approvalId |-> a, userId |-> u, delivered |-> TRUE]

\* the timers of request a that are next to run
TimerDue(a, k) ==
    /\ <<a, k>> \notin escalation.fired
    /\ \A j \in DOMAIN escalation.path :
          RunsBefore(escalation.path, j, k) => <<a, j>> \in escalation.fired

\* C31: a notice that cannot be sent neither blocks nor fails the approval.
\* Whatever set of approvers the notifier throws for, requestApprovalFromGate
\* leaves the request on the execution, PENDING, with all its approvers, and
\* every approver the notifier does not throw for has been sent the notice;
\* a listed approver who has not voted has the vote recorded, noticed or
\* not; and the timers of the request run as they do for any request.
C31_NotifyFailureDoesNotBlock ==
    /\ [][\A notifyFails \in SUBSET Users :
            (RequestApprovalFromGateCall(notifyFails)
                /\ GetApproversForGate(gate) # <<>>) =>
               /\ Len(approvals') = 1
               /\ approvals'[1].status = "PENDING"
               /\ approvals'[1].approvers = GetApproversForGate(gate)
               /\ \A i \in DOMAIN approvals'[1].approvers :
                     approvals'[1].approvers[i] \notin notifyFails =>
                        NoticeDelivered(notifications', 1,
                                        approvals'[1].approvers[i])]_vars
    /\ [][\A a \in DOMAIN approvals, u \in Users, d \in Decisions :
            (/\ ProcessApprovalDecision(a, u, d)
             /\ NoticeFailed(a, u)
             /\ ~ AlreadyDecided(approvals[a], u)) =>
               /\ lastCall'.outcome = "OK"
               /\ HasVote(approvals'[a], u)]_vars
    /\ [](\A a \in DOMAIN approvals, k \in DOMAIN escalation.path :
            (TimerDue(a, k) /\ \E u \in Users : NoticeFailed(a, u)) =>
               ENABLED EscalationTimer(a, k))

\* the first approver's notice failed, the second approver has the notice,
\* the first has voted all the same, and a timer of the request has escalated
C31_Witness ==
    /\ Len(approvals) = 1
    /\ NoticeFailed(1, approvals[1].approvers[1])
    /\ NoticeDelivered(notifications, 1, approvals[1].approvers[2])
    /\ HasVote(approvals[1], approvals[1].approvers[1])
    /\ escalation.notified # <<>>


\* ---------------------------------------------------------------- C32
\* the ids of the actions dispatched so far for stage s
DispatchedIn(s) ==
    {actionExecutions[i].actionId :
        i \in {j \in DOMAIN actionExecutions :
                  StageOf(actionExecutions[j].actionId) = s}}

\* the ids of the enabled actions of stage s in the playbook p
EnabledIn(p, s) ==
    LET stageActions == GetActionsByStage(p, s)
    IN  {stageActions[k].actionId : k \in DOMAIN stageActions}

TimedOut ==
    /\ status \in {"FAILED", "ROLLED_BACK"}
    /\ clock > playbook.maxExecutionTimeMs

\* the step starts a stage or an action
StartsStageOrAction ==
    \/ stageNumber' # stageNumber
    \/ Len(actionExecutions') # Len(actionExecutions)
    \/ \E i \in DOMAIN actionExecutions :
          /\ actionExecutions[i].status = "PENDING"
          /\ actionExecutions'[i].status \in {"APPROVAL_PENDING", "EXECUTING"}

StatusChanges ==
    {<<actionExecutions[i].status, actionExecutions'[i].status>> :
        i \in {j \in DOMAIN actionExecutions \cap DOMAIN actionExecutions' :
                  actionExecutions'[j].status # actionExecutions[j].status}}

\* FAILED without an attempt: the gate fails, the request is denied, the run
\* is cancelled
EarlyFailures ==
    {<<"PENDING", "FAILED">>, <<"APPROVAL_PENDING", "FAILED">>}

ClaimedTransitions ==
    {<<"PENDING", "APPROVAL_PENDING">>, <<"PENDING", "EXECUTING">>,
     <<"APPROVAL_PENDING", "EXECUTING">>,
     <<"EXECUTING", "SUCCESS">>, <<"EXECUTING", "FAILED">>,
     <<"FAILED", "COMPENSATING">>,
     <<"COMPENSATING", "COMPENSATED">>, <<"COMPENSATING", "FAILED">>,
     <<"PENDING", "SKIPPED">>}

ModelTransitions ==
    {<<"PENDING", "APPROVAL_PENDING">>, <<"PENDING", "EXECUTING">>,
     <<"APPROVAL_PENDING", "EXECUTING">>,
     <<"EXECUTING", "SUCCESS">>, <<"EXECUTING", "FAILED">>,
     <<"PENDING", "FAILED">>, <<"APPROVAL_PENDING", "FAILED">>,
     <<"PENDING", "SKIPPED">>,
     <<"SUCCESS", "COMPENSATED">>}

DueIn(p, s) ==
    {p.actions[i].actionId :
        i \in {j \in DOMAIN p.actions : /\ p.actions[j].enabled
                                        /\ p.actions[j].stage = s
                                        /\ p.actions[j].condition # "FALSE"}}

\* q holds the elements of p that satisfy Keep, each once, in p's order
ExactlyThose(q, p, Keep(_)) ==
    \E f \in [DOMAIN q -> DOMAIN p] :
        /\ \A k \in DOMAIN q : q[k] = p[f[k]] /\ Keep(p[f[k]])
        /\ \A k, l \in DOMAIN q : k < l => f[k] < f[l]
        /\ \A j \in DOMAIN p : Keep(p[j]) => \E k \in DOMAIN q : f[k] = j

\* C35: getActionsByStage(s) returns exactly the enabled actions of stage
\* s; in every stage the run has started, the actions dispatched are the
\* enabled actions of the stage whose condition holds; and an action that
\* is disabled, or whose condition is false, has no ActionExecution, so that
\* it is never EXECUTING and its handler is never called.
C35_OnlyEnabledAndDue ==
    /\ \A s \in 1..(HighestStage(playbook) + 1) :
          ExactlyThose(GetActionsByStage(playbook, s), playbook.actions,
                       LAMBDA a : a.enabled /\ a.stage = s)
    /\ \A s \in 1..stageNumber : DispatchedIn(s) = DueIn(playbook, s)
    /\ \A i \in DOMAIN actionExecutions :
          LET a == playbook.actions[actionExecutions[i].actionId]
          IN  /\ a.enabled
              /\ a.condition # "FALSE"
              /\ \A j \in DOMAIN actionExecutions :
                    actionExecutions[j].actionId = a.actionId => j = i

\* the run has ended with a stage in which one action ran, one was disabled
\* and left out, and in the next stage an action whose condition is false
\* was left out
C35_Witness ==
    /\ status \in {"COMPLETED", "PARTIALLY_COMPLETED", "FAILED"}
    /\ stageNumber = HighestStage(playbook)
    /\ \E i \in DOMAIN actionExecutions : actionExecutions[i].handlerCalls > 0
    /\ \E j \in DOMAIN playbook.actions :
          /\ ~ playbook.actions[j].enabled
          /\ playbook.actions[j].stage = 1
    /\ \E j \in DOMAIN playbook.actions :
          /\ playbook.actions[j].enabled
          /\ playbook.actions[j].condition = "FALSE"
          /\ playbook.actions[j].stage = 2


\* ---------------------------------------------------------------- C36
\* the attempts of ae recorded with the reason TIMEOUT
TimedOutAttempts(ae) ==
    {k \in DOMAIN ae.retryDetails : ae.retryDetails[k].reason = "TIMEOUT"}

\* C36: an attempt that runs out of time is recorded as a failed attempt
\* with the reason TIMEOUT and takes its place in the retry loop as any
\* other failure: the action fails when no retry is left and goes on
\* otherwise, and never has more than maxRetries + 1 attempts.  The answer of
\* a handler whose attempt has timed out changes neither the attempts nor
\* the status: an action is SUCCESS only by its last attempt, answered in
\* time.
C36_TimeoutIsAFailedAttempt ==
    /\ [][AttemptTimeout =>
            \A i \in DOMAIN actionExecutions :
               LET ae == actionExecutions[i]
                   n == Len(ae.retryDetails) + 1
               IN  actionExecutions'[i] # ae =>
                     /\ Len(actionExecutions'[i].retryDetails) = n
                     /\ SubSeq(actionExecutions'[i].retryDetails, 1, n - 1)
                           = ae.retryDetails
                     /\ actionExecutions'[i].retryDetails[n].attemptNumber = n
                     /\ ~ actionExecutions'[i].retryDetails[n].ok
                     /\ actionExecutions'[i].retryDetails[n].reason = "TIMEOUT"
                     /\ actionExecutions'[i].status =
                           IF n - 1 < retryConfig.maxRetries
                           THEN "EXECUTING" ELSE "FAILED"]_vars
    /\ [][(\E ok \in BOOLEAN : HandlerAnswersLate(ok)) =>
            \A i \in DOMAIN actionExecutions :
               /\ actionExecutions'[i].status = actionExecutions[i].status
               /\ actionExecutions'[i].retryDetails
                     = actionExecutions[i].retryDetails]_vars
    /\ [](\A i \in DOMAIN actionExecutions :
            LET ae == actionExecutions[i]
            IN  /\ Len(ae.retryDetails) <= retryConfig.maxRetries + 1
                /\ \A k \in TimedOutAttempts(ae) : ~ ae.retryDetails[k].ok
                /\ ae.status = "SUCCESS" =>
                      /\ ae.retryDetails # <<>>
                      /\ ae.retryDetails[Len(ae.retryDetails)].ok
                      /\ ae.retryDetails[Len(ae.retryDetails)].reason = "NONE")

\* every attempt of the action timed out, the action has FAILED, and one of
\* the handlers has answered since
C36_Witness ==
    \E i \in DOMAIN actionExecutions :
        LET ae == actionExecutions[i]
        IN  /\ ae.status = "FAILED"
            /\ Len(ae.retryDetails) > 1
            /\ TimedOutAttempts(ae) = DOMAIN ae.retryDetails
            /\ ae.lateHandlers < Len(ae.retryDetails)


\* ---------------------------------------------------------------- C37
\* the gate of the policies that has the name n
GateNamed(policies, n) == policies[n[1]].gates[n[2]]

\* C37: evaluatePolicyGates stops at the first gate that FAILED without
\* allowing partial execution: that result is the last of the list it
\* returns, and the requests on the execution are those of the gates before
\* it, one for each result APPROVAL_PENDING.
C37_StopsAtFirstFailure ==
    [][\A policies \in PolicyLists :
          EvaluatePolicyGatesCall(policies) =>
             LET results == EvaluatePolicyGates(policies, approvals).results
             IN  \A k \in DOMAIN results :
                    (/\ results[k].status = "FAILED"
                     /\ ~ GateNamed(policies, results[k].gateName).allowPartialExecution)
                    => /\ k = Len(results)
                       /\ Len(approvals') =
                             Cardinality({j \in 1..k :
                                 results[j].status = "APPROVAL_PENDING"})]_vars


\* ---------------------------------------------------------------- C38
\* the users whose vote is recorded on request r
Voters(r) ==
    {r.approvals[k].approvedBy : k \in DOMAIN r.approvals}
        \cup {r.denials[k].deniedBy : k \in DOMAIN r.denials}

\* the users on the approvers list of request r
Listed(r) == {r.approvers[k] : k \in DOMAIN r.approvers}

\* the call that has just ended named a request the execution does not
\* have, or a user who is not on the list of the request it named
UnknownOrUnlisted ==
    /\ lastCall'.seq # lastCall.seq
    /\ \A i \in DOMAIN approvals :
          approvals[i].approvalId = lastCall'.approvalId
             => lastCall'.userId \notin Listed(approvals[i])

\* C38: only a user on the approvers list of a request votes on it: every
\* recorded voter is on the list, and a call of processApprovalDecision by
\* another user, or for an approval id the execution does not have, ends in
\* an error and leaves the approvals, the denials and the status of every
\* request and the audit log as they were.
C38_OnlyApproversVote ==
    /\ [](\A i \in DOMAIN approvals : Voters(approvals[i]) \subseteq Listed(approvals[i]))
    /\ [][UnknownOrUnlisted
          => /\ lastCall'.outcome \in {"NOT_FOUND", "NOT_AUTHORIZED"}
             /\ lastCall'.unsavedEvent = "NONE"
             /\ approvals' = approvals
             /\ auditEvents' = auditEvents]_vars

\* a user who is not on the list of a request that waits for votes has been
\* refused, after a listed user voted on the same request
C38_Witness ==
    /\ lastCall.outcome = "NOT_AUTHORIZED"
    /\ \E i \in DOMAIN approvals :
          /\ approvals[i].approvalId = lastCall.approvalId
          /\ approvals[i].status = "PENDING"
          /\ lastCall.userId \notin Listed(approvals[i])
          /\ Voters(approvals[i]) # {}


\* ---------------------------------------------------------------- C39
\* the number of votes the stored requests of the execution hold
RECURSIVE VotesOf(_)
VotesOf(reqs) ==
    IF reqs = <<>> THEN 0
    ELSE Len(Head(reqs).approvals) + Len(Head(reqs).denials) + VotesOf(Tail(reqs))

PersistedVotes == VotesOf(approvals)

\* the number of APPROVAL_DECISION events the stored log of the execution
\* holds
PersistedDecisionEvents ==
    Cardinality({k \in DOMAIN auditEvents : auditEvents[k].event = "APPROVAL_DECISION"})

\* C39: every vote processApprovalDecision accepted is in the stored audit
\* trail of the execution: the log holds as many APPROVAL_DECISION events
\* as the requests hold votes.
C39_VotesAudited == PersistedDecisionEvents = PersistedVotes


\* ---------------------------------------------------------------- C40
\* no user stands twice on the approvers list of request r
NoDuplicateApprover(r) == Cardinality(Listed(r)) = Len(r.approvers)

\* the quorum of request r is one that its approvers list can give
QuorumWithinList(r) ==
    /\ r.requiredApprovers >= 1
    /\ r.requiredApprovers <= Len(r.approvers)

\* C40: every ApprovalRequest that is created can reach APPROVED: its
\* approvers list names no user twice and its requiredApprovers is at least
\* 1 and at most the number of approvers on the list.
C40_RequestCanBeApproved ==
    \A i \in DOMAIN approvals :
        /\ NoDuplicateApprover(approvals[i])
        /\ QuorumWithinList(approvals[i])

====
